---- MODULE Spec2Model ----
(***************************************************************************)
(* Model of the exception event correlation and deduplication engine of   *)
(* abrt-java-connector (src/src/abrt-checker.c): the three JVMTI event     *)
(* callbacks callback_on_exception, callback_on_exception_catch and       *)
(* callback_on_thread_end, the two thread maps they share, the global raw *)
(* monitor, and the heap objects (exception reports, circular buffers)    *)
(* they allocate and free.                                                 *)
(***************************************************************************)
EXTENDS Integers, Sequences, FiniteSets, TLC

(* ---------------------------------------------------------------------- *)
(* Bounds of the model                                                     *)
(* ---------------------------------------------------------------------- *)

\* number of distinct exception objects (fault identities)
NumExc == 2

\* number of exception / exception-catch events delivered in one run
MaxEvents == 2

\* number of callback invocations in which the JVM fails a request of the
\* agent (thread id, name lookup, equals, allocation)
MaxFailures == 1

\* capacity of a thread's buffer of reported exceptions; the source's
\* default is 5 and the macro can be overridden at build time (#ifndef)
REPORTED_EXCEPTION_STACK_CAPACITY == 1

\* a buffer on its own: largest capacity, number of pushes, number of
\* distinct exception objects pushed
MaxCapacity == 3

MaxPushes == 4

NumIds == 3

\* format_exception_reason_message() on its own: the names have at most
\* MaxParts parts
MaxParts == 2

\* lengths of a part of a name, and of a method name
PartLens == {0, 3, 130}

MethodLens == {4, 260}

\* the size of the reason message
MAX_REASON_MESSAGE_STRING_LENGTH == 255

\* the Java threads delivering events, by Thread.getId(): two, the least
\* number with which callbacks of different threads interleave
Threads == {1, 2}

Exc == 1..NumExc

\* keys of the two maps: a thread's id, or 0, the value the local variable
\* tid keeps when get_tid() fails
Keys == {0} \cup Threads

\* the null pointer; a heap address is <<allocating thread, serial number>>
NULL == <<0, 0>>

\* no thread owns the monitor
NoThread == 0

(* ---------------------------------------------------------------------- *)
(* State                                                                   *)
(* ---------------------------------------------------------------------- *)

VARIABLES
    threadMap,             \* set of <<tid, buffer address>>
    uncaughtExceptionMap,  \* set of <<tid, report address>>
    shared_lock,           \* owner of the global raw monitor, or NoThread
    reportedCaughExceptionTypes, \* globalConfig: NULL or a list of type names
    rptHeap,               \* per thread: the T_exceptionReport cells it malloc'ed
    bufHeap,               \* per thread: the circular buffers it created
    pc,                    \* per thread: position in the callback it runs
    cur,                   \* per thread: arguments and locals of that callback
    events,                \* per thread: the exception and catch events
                           \* delivered so far
    reports,               \* per thread: calls of report_stacktrace it made
    evicted,               \* per thread: identities overwritten in its buffer
    degraded,              \* per thread: a callback could not resolve the
                           \* thread id, a name, or allocate
    failures,              \* number of callback invocations that met a failure
    allocFailed,           \* malloc() of the report or the creation of the
                           \* buffer failed in the callback step just taken
    lookupFailed,          \* a lookup of the method name, the declaring class
                           \* or the class signature failed in the callback
                           \* step just taken
    ring,                  \* a circular buffer on its own: capacity, contents
    pushed,                \* the exception objects pushed into ring, in order
    fmt,                   \* a call of format_exception_reason_message():
                           \* arguments, locals, position, returned message
    agent,                 \* a run of Agent_OnLoad() that fails, and the
                           \* callbacks the JVM delivers afterwards
    sink,                  \* a call of report_stacktrace(): the record, the
                           \* configured outputs, what was sent where
    jni,                   \* the JNI calls of one callback: the call it is
                           \* at, and whether an exception is pending
    delivery,              \* the arguments the callbacks hand to
                           \* report_stacktrace(): per thread the pending
                           \* report, and the calls made so far
    trace,                 \* a call of generate_thread_stack_trace(): the
                           \* cause chain, the bytes written, the position
    info                   \* a call of info_pair_vector_to_string(): the
                           \* pairs, the allocation, the bytes written

\* the state of the three callbacks
engineVars == <<threadMap, uncaughtExceptionMap, shared_lock,
                reportedCaughExceptionTypes, rptHeap, bufHeap, pc, cur, events,
                reports, evicted, degraded, failures, lookupFailed,
                allocFailed>>

\* the state of the functions exercised on their own
unitVars == <<ring, pushed, fmt, agent, sink, jni, delivery, trace, info>>

vars == <<threadMap, uncaughtExceptionMap, shared_lock,
          reportedCaughExceptionTypes, rptHeap, bufHeap, pc, cur, events,
          reports, evicted, degraded, failures, lookupFailed, allocFailed,
          ring, pushed, fmt, agent, sink, jni, delivery, trace, info>>

(* ---------------------------------------------------------------------- *)
(* Collaborators                                                           *)
(* ---------------------------------------------------------------------- *)

\* the type name get_exception_type_name() resolves for an exception object
TypeName(e) == IF e % 2 = 1 THEN "java.lang.Error" ELSE "java.io.IOException"

\* the prefix format_exception_reason_message() renders
Prefix(caught) == IF caught THEN "Caught" ELSE "Uncaught"

\* a NULL list of type names, and a configured one
NullTypes == [isNULL |-> TRUE, names |-> {}]

Types(names) == [isNULL |-> FALSE, names |-> names]

\* mutant: the result of the comparison of the type names is inverted
exception_is_intended_unlisted(types, e) ==
    IF ~types.isNULL THEN TypeName(e) \notin types.names ELSE FALSE

\* mutant: the comparison of the type names is skipped
exception_is_intended_any_type(types, e) == ~types.isNULL

exception_is_intended_to_be_reported(types, e) ==
    IF ~types.isNULL THEN TypeName(e) \in types.names ELSE FALSE

\* jthread_map: a set of <<tid, item>> pairs
jthread_map_empty(map) == map = {}

jthread_map_get(map, tid) ==
    IF \E p \in map : p[1] = tid
    THEN (CHOOSE p \in map : p[1] = tid)[2]
    ELSE NULL

\* mutant: an entry of the same thread is kept
jthread_map_push_keeping(map, tid, item) == map \cup {<<tid, item>>}

jthread_map_push(map, tid, item) ==
    {p \in map : p[1] # tid} \cup {<<tid, item>>}

jthread_map_pop(map, tid) == {p \in map : p[1] # tid}

\* jthrowable_circular_buf: the identities of the last pushes, oldest first
jthrowable_circular_buf_find(mem, e) == \E i \in 1..Len(mem) : mem[i] = e

\* mutant: a full buffer drops the new object
jthrowable_circular_buf_push_full(mem, capacity, e) ==
    IF Len(mem) < capacity THEN Append(mem, e) ELSE mem

\* push into a buffer created with the given capacity: the oldest slot is
\* overwritten when the buffer is full
jthrowable_circular_buf_push_cap(mem, capacity, e) ==
    IF Len(mem) < capacity
    THEN Append(mem, e)
    ELSE Append(Tail(mem), e)

\* push into a buffer of create_exception_buf_for_thread()
jthrowable_circular_buf_push(mem, e) ==
    jthrowable_circular_buf_push_cap(mem, REPORTED_EXCEPTION_STACK_CAPACITY, e)

\* contents of the buffer an address points to
BufMem(b) == bufHeap[b[1]][b[2]].mem

\* the exception object a report cell holds
RptExc(r) == rptHeap[r[1]][r[2]].exception_object

NoArgs == [e |-> 0, catch_method |-> FALSE, rpt |-> NULL, buf |-> NULL]

\* an Exception event (catch_method: a catch method is known) and an
\* ExceptionCatch event, as the JVM delivers them
OnThrow(e, catch_method) == [kind |-> "throw", e |-> e, catch_method |-> catch_method]

OnCatch(e) == [kind |-> "catch", e |-> e, catch_method |-> TRUE]

\* number of events delivered by all threads
RECURSIVE EventsOf(_)
EventsOf(S) ==
    IF S = {} THEN 0
    ELSE LET t == CHOOSE x \in S : TRUE
         IN Len(events[t]) + EventsOf(S \ {t})

nEvents == EventsOf(Threads)

Report(e, by, caught) == [exc |-> e, by |-> by, phrase |-> Prefix(caught)]

\* mutant: the record is not handed on
report_stacktrace_skipped(rs, t, r) == rs

\* report_stacktrace(): thread t hands the finished record r to the outputs
report_stacktrace(rs, t, r) == [rs EXCEPT ![t] = Append(@, r)]

(* ---------------------------------------------------------------------- *)
(* Initial state: Agent_OnLoad has returned JNI_OK                         *)
(* ---------------------------------------------------------------------- *)

EngineInit ==
    /\ threadMap = {}
    /\ uncaughtExceptionMap = {}
    /\ shared_lock = NoThread
    /\ reportedCaughExceptionTypes \in
           {NullTypes, Types({}), Types({"java.lang.Error"}),
            Types({"java.lang.Error", "java.io.IOException"})}
    /\ rptHeap = [t \in Threads |-> <<>>]
    /\ bufHeap = [t \in Threads |-> <<>>]
    /\ pc = [t \in Threads |-> "idle"]
    /\ cur = [t \in Threads |-> NoArgs]
    /\ events = [t \in Threads |-> <<>>]
    /\ reports = [t \in Threads |-> <<>>]
    /\ evicted = [t \in Threads |-> {}]
    /\ degraded = [t \in Threads |-> FALSE]
    /\ failures = 0
    /\ lookupFailed = FALSE
    /\ allocFailed = FALSE

\* no buffer is exercised on its own
NoRing == [capacity |-> 0, mem |-> <<>>]

\* a name is the sequence of the lengths of its parts between the '.'
\* characters: "" is <<0>>, "Error" is <<5>>, "java.lang.Error" is <<4, 4, 5>>
EmptyName == <<0>>

\* the message pointer before calloc(), and the NULL the function returns
NoMessage == [len |-> -1]

\* no call of format_exception_reason_message() is made
NoFmt == [pc |-> "none", caught |-> FALSE, fail |-> "none",
          exception_fqdn |-> EmptyName, class_fqdn |-> EmptyName,
          exception_name |-> EmptyName, class_name |-> EmptyName,
          method |-> 0, message_len |-> 0, renderings |-> 0,
          applied |-> <<>>, message |-> NoMessage]

\* Agent_OnLoad() is not exercised on its own
NoAgent == [pc |-> "none", created |-> {}, result |-> "JNI_OK",
            threadMap |-> {}, calls |-> 0, emitted |-> <<>>,
            touched |-> {}, host |-> "running"]

\* report_stacktrace() is not exercised on its own
NoSink == [pc |-> "none", reportErrosTo |-> {}, stacktrace |-> FALSE,
           log_file |-> FALSE, res |-> 0, sent |-> <<>>, stderr |-> <<>>]

\* no callback is followed through its JNI calls
NoJni == [callback |-> "none", site |-> 0, phase |-> "none",
          pending |-> FALSE, cleared |-> 0]

\* no report is followed to report_stacktrace()
NoDelivery == [pending |-> [t \in Threads |-> [fault |-> 0]], out |-> <<>>,
               serial |-> 0]

\* no stack trace is generated
NoTrace == [pc |-> "none"]

\* no list of pairs is rendered
NoInfo == [pc |-> "none"]

Init ==
    /\ EngineInit
    /\ delivery = NoDelivery
    /\ trace = NoTrace
    /\ info = NoInfo
    /\ ring = NoRing
    /\ pushed = <<>>
    /\ fmt = NoFmt
    /\ agent = NoAgent
    /\ sink = NoSink
    /\ jni = NoJni

(* ---------------------------------------------------------------------- *)
(* Heap                                                                     *)
(* ---------------------------------------------------------------------- *)

\* malloc(sizeof(T_exceptionReport)) by thread t, filled as lines 2393-2408
NewRpt(t, e) ==
    Append(rptHeap[t], [st |-> "live", exception_object |-> e,
                        message |-> Prefix(FALSE)])

\* exception_report_free(): the members are freed, the cell itself is not
exception_report_free(heap, r) ==
    IF r = NULL THEN heap
    ELSE [heap EXCEPT ![r[1]][r[2]].st =
             IF @ = "live" THEN "members_freed" ELSE "freed_twice"]

\* jthrowable_circular_buf_new() by thread t
NewBuf(t, mem) == Append(bufHeap[t], [st |-> "live", mem |-> mem])

jthrowable_circular_buf_free(heap, b) ==
    IF b = NULL THEN heap
    ELSE [heap EXCEPT ![b[1]][b[2]].st =
             IF @ = "live" THEN "freed" ELSE "freed_twice"]

(* ---------------------------------------------------------------------- *)
(* callback_on_exception                                                   *)
(* ---------------------------------------------------------------------- *)

\* mutant: the buffer is not consulted
exception_never_reported(threads_exc_buf, e) == TRUE

\* line 2340: the thread has no buffer, or the exception is not in it
exception_not_reported(threads_exc_buf, e) ==
    \/ threads_exc_buf = NULL
    \/ ~jthrowable_circular_buf_find(BufMem(threads_exc_buf), e)

\* mutant: every report is postponed
report_is_always_postponed(catch_method) == TRUE

\* mutant: the callback returns without leaving the monitor
exit_critical_section_skipped(monitor) == monitor

\* lines 987-994: RawMonitorExit() gives up the monitor, whichever label the
\* callback came to it from (lines 2464 and 2603)
exit_critical_section(monitor) == NoThread

\* mutant: no report is postponed
report_is_never_postponed(catch_method) == FALSE

\* line 2384: the report of an exception with no catch method is postponed
report_is_postponed(catch_method) == ~catch_method

\* The event arrives.  A caught exception is dropped before the monitor is
\* taken when no type is configured; otherwise the thread enters the
\* critical section.
callback_on_exception_enter(t, e, catch_method) ==
    /\ pc[t] = "idle"
    /\ nEvents < MaxEvents
    /\ events' = [events EXCEPT ![t] = Append(@, OnThrow(e, catch_method))]
    /\ IF catch_method /\ reportedCaughExceptionTypes.isNULL
       THEN UNCHANGED <<pc, cur, shared_lock>>
       ELSE /\ shared_lock = NoThread
            /\ shared_lock' = t
            /\ pc' = [pc EXCEPT ![t] = "on_exception"]
            /\ cur' = [cur EXCEPT ![t] =
                   [NoArgs EXCEPT !.e = e, !.catch_method = catch_method]]
    /\ lookupFailed' = FALSE
    /\ allocFailed' = FALSE
    /\ UNCHANGED unitVars
    /\ UNCHANGED <<threadMap, uncaughtExceptionMap,
                   reportedCaughExceptionTypes, rptHeap, bufHeap, reports,
                   evicted, degraded, failures>>

\* The critical section, up to and including exit_critical_section().
\* tidOk: get_tid() succeeds; lookupOk: the three JVMTI lookups of lines
\* 2349-2359 succeed; allocOk: malloc() of the report, or
\* jthrowable_circular_buf_new(), succeeds.
callback_on_exception(t, tidOk, lookupOk, allocOk) ==
    /\ pc[t] = "on_exception"
    /\ LET a == [cur[t] EXCEPT !.rpt = NULL] @@
                 [tidOk |-> tidOk, lookupOk |-> lookupOk, allocOk |-> allocOk]
           tid == IF a.tidOk THEN t ELSE 0
           threads_exc_buf == IF a.tidOk THEN jthread_map_get(threadMap, tid)
                              ELSE NULL
           intended == \/ ~a.catch_method
                       \/ exception_is_intended_to_be_reported(
                              reportedCaughExceptionTypes, a.e)
           found == ~exception_not_reported(threads_exc_buf, a.e)
           build == intended /\ ~found /\ a.lookupOk
           newbuf == <<t, Len(bufHeap[t]) + 1>>
           newrpt == <<t, Len(rptHeap[t]) + 1>>
       IN
       /\ IF build /\ report_is_postponed(a.catch_method) /\ a.allocOk
          THEN /\ rptHeap' = [rptHeap EXCEPT ![t] = NewRpt(t, a.e)]
               /\ uncaughtExceptionMap' =
                      jthread_map_push(uncaughtExceptionMap, tid, newrpt)
          ELSE UNCHANGED <<rptHeap, uncaughtExceptionMap>>
       /\ IF build /\ ~report_is_postponed(a.catch_method)
          THEN /\ reports' = report_stacktrace(reports, t,
                                                Report(a.e, "throw", TRUE))
               /\ IF threads_exc_buf = NULL
                  THEN IF a.allocOk
                       THEN /\ bufHeap' = [bufHeap EXCEPT ![t] =
                                   NewBuf(t, jthrowable_circular_buf_push(<<>>, a.e))]
                            /\ threadMap' =
                                   jthread_map_push(threadMap, tid, newbuf)
                            /\ UNCHANGED evicted
                       ELSE UNCHANGED <<bufHeap, threadMap, evicted>>
                  ELSE /\ bufHeap' = [bufHeap EXCEPT
                              ![threads_exc_buf[1]][threads_exc_buf[2]].mem =
                                  jthrowable_circular_buf_push(@, a.e)]
                       /\ evicted' = [evicted EXCEPT ![t] =
                              IF Len(BufMem(threads_exc_buf))
                                     < REPORTED_EXCEPTION_STACK_CAPACITY
                              THEN @
                              ELSE @ \cup {Head(BufMem(threads_exc_buf))}]
                       /\ UNCHANGED threadMap
          ELSE UNCHANGED <<reports, bufHeap, threadMap, evicted>>
       /\ lookupFailed' = (intended /\ ~found /\ ~a.lookupOk)
       /\ allocFailed' = /\ build /\ ~a.allocOk
                         /\ \/ report_is_postponed(a.catch_method)
                            \/ threads_exc_buf = NULL
       /\ LET failed ==
                  \/ intended /\ ~a.tidOk
                  \/ intended /\ ~found /\ ~a.lookupOk
                  \/ /\ build /\ ~a.allocOk
                     /\ \/ report_is_postponed(a.catch_method)
                        \/ threads_exc_buf = NULL
          IN /\ failed => failures < MaxFailures
             /\ failures' = IF failed THEN failures + 1 ELSE failures
             /\ degraded' = [degraded EXCEPT ![t] = (@ \/ failed)]
    /\ shared_lock' = exit_critical_section(shared_lock)
    /\ pc' = [pc EXCEPT ![t] = "idle"]
    /\ cur' = [cur EXCEPT ![t] = NoArgs]
    /\ UNCHANGED unitVars
    /\ UNCHANGED <<reportedCaughExceptionTypes, events>>

(* ---------------------------------------------------------------------- *)
(* callback_on_exception_catch                                             *)
(* ---------------------------------------------------------------------- *)

\* mutant: the two objects are not compared
equal_objects_unchecked(rpt, e, equalsOk) == rpt # NULL /\ equalsOk

\* lines 2495-2522: the thread has a pending report and Object.equals()
\* says that the caught object is the stored one
equal_objects(rpt, e, equalsOk) ==
    rpt # NULL /\ equalsOk /\ RptExc(rpt) = e

\* line 2548: the thread has no buffer, or the exception is not in it
caught_not_reported(threads_exc_buf, e) ==
    \/ threads_exc_buf = NULL
    \/ ~jthrowable_circular_buf_find(BufMem(threads_exc_buf), e)

\* mutant: the emptiness test is left out
nothing_postponed_unchecked(map) == FALSE

\* line 2479: no report is postponed for any thread
nothing_postponed(map) == jthread_map_empty(map)

\* The event arrives: the emptiness test of line 2479, made before the
\* monitor is requested, and enter_critical_section() of line 2483.
callback_on_exception_catch_enter(t, e) ==
    /\ pc[t] = "idle"
    /\ nEvents < MaxEvents
    /\ events' = [events EXCEPT ![t] = Append(@, OnCatch(e))]
    /\ IF nothing_postponed(uncaughtExceptionMap)
       THEN UNCHANGED <<pc, cur, shared_lock>>
       ELSE /\ shared_lock = NoThread
            /\ shared_lock' = t
            /\ pc' = [pc EXCEPT ![t] = "on_exception_catch"]
            /\ cur' = [cur EXCEPT ![t] = [NoArgs EXCEPT !.e = e]]
    /\ lookupFailed' = FALSE
    /\ allocFailed' = FALSE
    /\ UNCHANGED unitVars
    /\ UNCHANGED <<threadMap, uncaughtExceptionMap,
                   reportedCaughExceptionTypes, rptHeap, bufHeap, reports,
                   evicted, degraded, failures>>

\* The critical section, up to and including exit_critical_section().
\* tidOk, tidOk2: the get_tid() calls of lines 2489 and 2538 succeed;
\* equalsOk: Object.equals() could be found and called; lookupOk: the three
\* JVMTI lookups of lines 2557-2567 succeed; allocOk:
\* jthrowable_circular_buf_new() succeeds.
callback_on_exception_catch(t, tidOk, tidOk2, equalsOk, lookupOk, allocOk) ==
    /\ pc[t] = "on_exception_catch"
    /\ LET a == [cur[t] EXCEPT !.rpt = NULL] @@
                 [tidOk |-> tidOk, tidOk2 |-> tidOk2, equalsOk |-> equalsOk,
                  lookupOk |-> lookupOk, allocOk |-> allocOk]
           rpt == IF a.tidOk THEN jthread_map_get(uncaughtExceptionMap, t)
                  ELSE NULL
           matches == equal_objects(rpt, a.e, a.equalsOk)
           intended == /\ matches
                       /\ exception_is_intended_to_be_reported(
                              reportedCaughExceptionTypes, RptExc(rpt))
           \* the inner tid of line 2535 and the second get_tid()
           tid2 == IF a.tidOk2 THEN t ELSE 0
           threads_exc_buf == IF a.tidOk2 THEN jthread_map_get(threadMap, tid2)
                              ELSE NULL
           found == ~caught_not_reported(threads_exc_buf, RptExc(rpt))
           emit == intended /\ ~found /\ a.lookupOk
           newbuf == <<t, Len(bufHeap[t]) + 1>>
       IN
       /\ IF matches
          THEN /\ uncaughtExceptionMap' = jthread_map_pop(uncaughtExceptionMap, t)
               /\ rptHeap' = exception_report_free(rptHeap, rpt)
          ELSE UNCHANGED <<uncaughtExceptionMap, rptHeap>>
       /\ IF emit
          THEN /\ reports' = report_stacktrace(reports, t,
                                     Report(RptExc(rpt), "catch", TRUE))
               /\ IF threads_exc_buf = NULL
                  THEN IF a.allocOk
                       THEN /\ bufHeap' = [bufHeap EXCEPT ![t] =
                                   NewBuf(t, jthrowable_circular_buf_push(
                                                 <<>>, RptExc(rpt)))]
                            /\ threadMap' =
                                   jthread_map_push(threadMap, tid2, newbuf)
                            /\ UNCHANGED evicted
                       ELSE UNCHANGED <<bufHeap, threadMap, evicted>>
                  ELSE /\ bufHeap' = [bufHeap EXCEPT
                              ![threads_exc_buf[1]][threads_exc_buf[2]].mem =
                                  jthrowable_circular_buf_push(@, RptExc(rpt))]
                       /\ evicted' = [evicted EXCEPT ![t] =
                              IF Len(BufMem(threads_exc_buf))
                                     < REPORTED_EXCEPTION_STACK_CAPACITY
                              THEN @
                              ELSE @ \cup {Head(BufMem(threads_exc_buf))}]
                       /\ UNCHANGED threadMap
          ELSE UNCHANGED <<reports, bufHeap, threadMap, evicted>>
       /\ lookupFailed' = (intended /\ ~found /\ ~a.lookupOk)
       /\ allocFailed' = (emit /\ threads_exc_buf = NULL /\ ~a.allocOk)
       /\ LET failed ==
                  \/ ~a.tidOk
                  \/ rpt # NULL /\ ~a.equalsOk
                  \/ intended /\ ~a.tidOk2
                  \/ intended /\ ~found /\ ~a.lookupOk
                  \/ emit /\ threads_exc_buf = NULL /\ ~a.allocOk
          IN /\ failed => failures < MaxFailures
             /\ failures' = IF failed THEN failures + 1 ELSE failures
             /\ degraded' = [degraded EXCEPT ![t] = (@ \/ failed)]
    /\ shared_lock' = exit_critical_section(shared_lock)
    /\ pc' = [pc EXCEPT ![t] = "idle"]
    /\ cur' = [cur EXCEPT ![t] = NoArgs]
    /\ UNCHANGED unitVars
    /\ UNCHANGED <<reportedCaughExceptionTypes, events>>

(* ---------------------------------------------------------------------- *)
(* callback_on_thread_end (takes no monitor)                               *)
(* ---------------------------------------------------------------------- *)

\* mutant: a thread without a buffer is not reported
thread_end_reports_with_buffer(rpt, threads_exc_buf) ==
    /\ rpt # NULL
    /\ threads_exc_buf # NULL
    /\ ~jthrowable_circular_buf_find(BufMem(threads_exc_buf), RptExc(rpt))

\* lines 1541-1543: a report was pending and its exception is not in the
\* buffer that was popped
thread_end_reports(rpt, threads_exc_buf) ==
    /\ rpt # NULL
    /\ \/ threads_exc_buf = NULL
       \/ ~jthrowable_circular_buf_find(BufMem(threads_exc_buf), RptExc(rpt))

\* lines 1523-1539: the emptiness tests, get_tid(), and the two pops
callback_on_thread_end_pop(t, tidOk) ==
    /\ pc[t] = "idle"
    /\ IF jthread_map_empty(threadMap) /\ jthread_map_empty(uncaughtExceptionMap)
       THEN /\ pc' = [pc EXCEPT ![t] = "ended"]
            /\ lookupFailed' = FALSE
            /\ allocFailed' = FALSE
            /\ UNCHANGED <<cur, degraded, failures, threadMap,
                           uncaughtExceptionMap>>
       ELSE IF ~tidOk
            THEN /\ failures < MaxFailures
                 /\ failures' = failures + 1
                 /\ pc' = [pc EXCEPT ![t] = "ended"]
                 /\ degraded' = [degraded EXCEPT ![t] = TRUE]
                 /\ lookupFailed' = FALSE
                 /\ allocFailed' = FALSE
                 /\ UNCHANGED <<cur, threadMap, uncaughtExceptionMap>>
            ELSE /\ cur' = [cur EXCEPT
                        ![t].rpt = jthread_map_get(uncaughtExceptionMap, t),
                        ![t].buf = jthread_map_get(threadMap, t)]
                 /\ uncaughtExceptionMap' =
                        jthread_map_pop(uncaughtExceptionMap, t)
                 /\ threadMap' = jthread_map_pop(threadMap, t)
                 /\ pc' = [pc EXCEPT ![t] = "thread_end"]
                 /\ lookupFailed' = FALSE
                 /\ allocFailed' = FALSE
                 /\ UNCHANGED <<degraded, failures>>
    /\ UNCHANGED unitVars
    /\ UNCHANGED <<shared_lock, reportedCaughExceptionTypes, rptHeap, bufHeap,
                   events, reports, evicted>>

\* lines 1541-1556: report the pending exception, free what was popped
callback_on_thread_end(t) ==
    /\ pc[t] = "thread_end"
    /\ LET rpt == cur[t].rpt
           threads_exc_buf == cur[t].buf
       IN
       /\ IF thread_end_reports(rpt, threads_exc_buf)
          THEN reports' = report_stacktrace(reports, t,
                                            Report(RptExc(rpt), "end", FALSE))
          ELSE UNCHANGED reports
       /\ rptHeap' = exception_report_free(rptHeap, rpt)
       /\ bufHeap' = jthrowable_circular_buf_free(bufHeap, threads_exc_buf)
    /\ pc' = [pc EXCEPT ![t] = "ended"]
    /\ cur' = [cur EXCEPT ![t] = NoArgs]
    /\ lookupFailed' = FALSE
    /\ allocFailed' = FALSE
    /\ UNCHANGED unitVars
    /\ UNCHANGED <<threadMap, uncaughtExceptionMap, shared_lock,
                   reportedCaughExceptionTypes, events, evicted, degraded, failures>>

(* ---------------------------------------------------------------------- *)
(* Specification                                                           *)
(* ---------------------------------------------------------------------- *)

Next ==
    \E t \in Threads :
        \/ \E e \in Exc, catch_method \in BOOLEAN :
               callback_on_exception_enter(t, e, catch_method)
        \/ \E tidOk, lookupOk, allocOk \in BOOLEAN :
               callback_on_exception(t, tidOk, lookupOk, allocOk)
        \/ \E e \in Exc : callback_on_exception_catch_enter(t, e)
        \/ \E tidOk, tidOk2, equalsOk, lookupOk, allocOk \in BOOLEAN :
               callback_on_exception_catch(t, tidOk, tidOk2, equalsOk,
                                           lookupOk, allocOk)
        \/ \E tidOk \in BOOLEAN : callback_on_thread_end_pop(t, tidOk)
        \/ callback_on_thread_end(t)

Spec == Init /\ [][Next]_vars

(* ---------------------------------------------------------------------- *)
(* The circular buffer on its own                                          *)
(* ---------------------------------------------------------------------- *)

\* jthrowable_circular_buf_new(jni_env, capacity): an empty buffer
jthrowable_circular_buf_new(capacity) == [capacity |-> capacity, mem |-> <<>>]

BufInit ==
    /\ EngineInit
    /\ delivery = NoDelivery
    /\ trace = NoTrace
    /\ info = NoInfo
    /\ reportedCaughExceptionTypes = NullTypes
    /\ ring \in {jthrowable_circular_buf_new(k) : k \in 1..MaxCapacity}
    /\ pushed = <<>>
    /\ fmt = NoFmt
    /\ agent = NoAgent
    /\ sink = NoSink
    /\ jni = NoJni

BufPush(e) ==
    /\ Len(pushed) < MaxPushes
    /\ ring' = [ring EXCEPT !.mem =
                    jthrowable_circular_buf_push_cap(@, ring.capacity, e)]
    /\ pushed' = Append(pushed, e)
    /\ UNCHANGED <<fmt, agent, sink, jni, delivery, trace, info>>
    /\ UNCHANGED engineVars

BufNext == \E e \in 1..NumIds : BufPush(e)

BufSpec == BufInit /\ [][BufNext]_vars

TypeOK ==
    /\ shared_lock \in {NoThread} \cup Threads
    /\ nEvents \in 0..MaxEvents
    /\ \A t \in Threads : Len(reports[t]) <= Len(events[t]) + 1
    /\ lookupFailed \in BOOLEAN
    /\ allocFailed \in BOOLEAN

(* ---------------------------------------------------------------------- *)
(* format_exception_reason_message on its own                              *)
(* ---------------------------------------------------------------------- *)

RECURSIVE SumOf(_)
SumOf(seq) == IF seq = <<>> THEN 0 ELSE Head(seq) + SumOf(Tail(seq))

\* strlen() of a name: its parts and the '.' between them
strlen(name) == SumOf(name) + Len(name) - 1

\* strrchr(name, '.') finds a '.'
strrchr(name) == Len(name) > 1

\* ptr + 1: the part after the last '.'
after_last_dot(name) == <<name[Len(name)]>>

\* the names of at most n parts
RECURSIVE NamesUpTo(_)
NamesUpTo(n) ==
    IF n = 0 THEN {}
    ELSE NamesUpTo(n - 1) \cup [1..n -> PartLens]

\* lines 832-835: the length of "%s exception %s in method %s%s%s()"
\* mutant: the '.' is printed after an empty class name too
rendered_len_with_dot(caught, exception_name, class_name, method) ==
    (IF caught THEN 6 ELSE 8) + 11 + strlen(exception_name) + 11
        + strlen(class_name) + 1 + method + 2

rendered_len(caught, exception_name, class_name, method) ==
    (IF caught THEN 6 ELSE 8) + 11 + strlen(exception_name) + 11
        + strlen(class_name) + (IF strlen(class_name) > 0 THEN 1 ELSE 0)
        + method + 2

\* mutant: the size given to snprintf() is ignored
sprintf_stored(message_len) == message_len

\* line 832: snprintf() stores at most size - 1 characters
snprintf_stored(message_len) ==
    IF message_len < MAX_REASON_MESSAGE_STRING_LENGTH
    THEN message_len
    ELSE MAX_REASON_MESSAGE_STRING_LENGTH - 1

\* mutant: the exception name is shortened before the class name
shortening_exception_first(class_name, exception_name) ==
    IF strrchr(exception_name) THEN "exception_namespace"
    ELSE IF strrchr(class_name) THEN "class_namespace"
    ELSE IF strlen(class_name) > 0 THEN "class_name"
    ELSE "none"

\* mutant: the class name is dropped without the test of line 857
shortening_untested(class_name, exception_name) ==
    IF strrchr(class_name) THEN "class_namespace"
    ELSE IF strrchr(exception_name) THEN "exception_namespace"
    ELSE "class_name"

\* lines 845-862: what is dropped from an overlong message
shortening(class_name, exception_name) ==
    IF strrchr(class_name) THEN "class_namespace"
    ELSE IF strrchr(exception_name) THEN "exception_namespace"
    ELSE IF strlen(class_name) > 0 THEN "class_name"
    ELSE "none"

\* mutant: the result of calloc() is not tested
calloc_unchecked(fail) == TRUE

\* lines 823-828: calloc() returned memory
calloc_succeeds(fail) == fail # "calloc"

\* the text snprintf() left in the message
Rendered(f) ==
    [len |-> snprintf_stored(f.message_len), caught |-> f.caught,
     exception_name |-> f.exception_name, class_name |-> f.class_name,
     method |-> f.method]

FmtInit ==
    /\ EngineInit
    /\ delivery = NoDelivery
    /\ trace = NoTrace
    /\ info = NoInfo
    /\ reportedCaughExceptionTypes = NullTypes
    /\ ring = NoRing
    /\ pushed = <<>>
    /\ agent = NoAgent
    /\ sink = NoSink
    /\ jni = NoJni
    /\ \E caught \in BOOLEAN, e \in NamesUpTo(MaxParts),
          c \in NamesUpTo(MaxParts), m \in MethodLens,
          fail \in {"none", "calloc", "snprintf"} :
           fmt = [NoFmt EXCEPT !.pc = "called", !.caught = caught,
                               !.fail = fail,
                               !.exception_fqdn = e, !.class_fqdn = c,
                               !.exception_name = e, !.class_name = c,
                               !.method = m]

\* lines 818-828: the locals, and the message buffer
format_exception_reason_message_alloc ==
    /\ fmt.pc = "called"
    /\ fmt' = IF calloc_succeeds(fmt.fail)
              THEN [fmt EXCEPT !.pc = "loop"]
              ELSE [fmt EXCEPT !.pc = "returned", !.message = NoMessage]
    /\ UNCHANGED <<ring, pushed, agent, sink, jni, delivery, trace, info>>
    /\ UNCHANGED engineVars

\* lines 830-868: one turn of the loop
format_exception_reason_message_loop ==
    /\ fmt.pc = "loop"
    /\ LET message_len ==
               IF fmt.fail = "snprintf" THEN -1
               ELSE rendered_len(fmt.caught, fmt.exception_name,
                                 fmt.class_name, fmt.method)
           f == [fmt EXCEPT !.message_len = message_len,
                            !.renderings = @ + 1]
           drop == shortening(fmt.class_name, fmt.exception_name)
       IN fmt' =
              IF message_len <= 0
              THEN [f EXCEPT !.pc = "returned", !.message = NoMessage]
              ELSE IF message_len >= MAX_REASON_MESSAGE_STRING_LENGTH
                      /\ drop # "none"
              THEN [f EXCEPT
                       !.applied = Append(@, drop),
                       !.class_name =
                           IF drop = "class_namespace" THEN after_last_dot(@)
                           ELSE IF drop = "class_name" THEN EmptyName
                           ELSE @,
                       !.exception_name =
                           IF drop = "exception_namespace"
                           THEN after_last_dot(@)
                           ELSE @]
              ELSE [f EXCEPT !.pc = "returned", !.message = Rendered(f)]
    /\ UNCHANGED <<ring, pushed, agent, sink, jni, delivery, trace, info>>
    /\ UNCHANGED engineVars

FmtNext ==
    \/ format_exception_reason_message_alloc
    \/ format_exception_reason_message_loop

FmtSpec == FmtInit /\ [][FmtNext]_vars

\* the function is not suspended for ever: a call that can take a step
\* takes it
FmtTermination == FmtInit /\ [][FmtNext]_vars /\ WF_vars(FmtNext)

(* ---------------------------------------------------------------------- *)
(* Agent_OnLoad fails to create the lock or a registry                     *)
(* ---------------------------------------------------------------------- *)

\* the objects lines 3041-3068 create, in the order of creation
Creations == <<"shared_lock", "threadMap", "uncaughtExceptionMap">>

\* the objects created before the creation of `fail` fails
CreatedBefore(fail) ==
    {Creations[i] : i \in {j \in 1..Len(Creations) :
                               \A k \in 1..j : Creations[k] # fail}}

\* lines 3029-3039 have registered the callbacks and enabled the events
LoadInit ==
    /\ EngineInit
    /\ delivery = NoDelivery
    /\ trace = NoTrace
    /\ info = NoInfo
    /\ ring = NoRing
    /\ pushed = <<>>
    /\ fmt = NoFmt
    /\ agent = [NoAgent EXCEPT !.pc = "onload"]
    /\ sink = NoSink
    /\ jni = NoJni

\* lines 3041-3068: the monitor and the two maps; a failed creation of the
\* monitor returns its error code, a failed jthread_map_new() returns -1
Agent_OnLoad(fail) ==
    /\ agent.pc = "onload"
    /\ agent' = [agent EXCEPT
                    !.pc = "returned",
                    !.created = CreatedBefore(fail),
                    !.result = IF fail = "none" THEN "JNI_OK"
                               ELSE IF fail = "shared_lock" THEN "error_code"
                               ELSE "-1"]
    /\ UNCHANGED <<ring, pushed, fmt, sink, jni, delivery, trace, info>>
    /\ UNCHANGED engineVars

\* a callback is delivered after Agent_OnLoad() has returned an error
DeliveredAfterFailedLoad ==
    /\ agent.pc = "returned"
    /\ agent.result # "JNI_OK"
    /\ agent.host = "running"
    /\ agent.calls < MaxEvents

\* the registry a callback is about to use was not created
missing(registry) == registry \notin agent.created

\* a jthread_map function is called at a line with a registry; when the
\* registry is NULL the process crashes, or the call returns and the callback
\* goes on
AfterUse(a, uses, survives) ==
    LET used == {u \in uses : missing(u[1])}
    IN [a EXCEPT !.touched = @ \cup used,
                 !.host = IF used # {} /\ ~survives THEN "crashed" ELSE @]

\* callback_on_exception(), lines 2302-2465, with every lookup succeeding
callback_on_exception_after_failed_load(t, e, catch_method, survives) ==
    /\ DeliveredAfterFailedLoad
    /\ LET a == [agent EXCEPT !.calls = @ + 1]
           \* line 2330: NULL != threadMap
           threads_exc_buf ==
               IF "threadMap" \in agent.created
               THEN jthread_map_get(agent.threadMap, t)
               ELSE NULL
           build ==
               /\ ~catch_method
                  \/ exception_is_intended_to_be_reported(
                         reportedCaughExceptionTypes, e)
               /\ \/ threads_exc_buf = NULL
                  \/ ~jthrowable_circular_buf_find(threads_exc_buf, e)
           mem == IF threads_exc_buf = NULL THEN <<>> ELSE threads_exc_buf
       IN agent' =
              \* line 2313
              IF catch_method /\ reportedCaughExceptionTypes.isNULL THEN a
              ELSE IF ~build THEN a
              \* line 2410
              ELSE IF ~catch_method
              THEN AfterUse(a, {<<"uncaughtExceptionMap", 2410>>}, survives)
              \* lines 2414-2427; line 1508 when the thread has no buffer
              ELSE LET r == [a EXCEPT !.emitted =
                                 Append(@, Report(e, "throw", TRUE))]
                       u == IF threads_exc_buf = NULL
                            THEN AfterUse(r, {<<"threadMap", 1508>>}, survives)
                            ELSE r
                   IN IF "threadMap" \in agent.created
                      THEN [u EXCEPT !.threadMap =
                               jthread_map_push(@, t,
                                   jthrowable_circular_buf_push(mem, e))]
                      ELSE u
    /\ UNCHANGED <<ring, pushed, fmt, sink, jni, delivery, trace, info>>
    /\ UNCHANGED engineVars

\* callback_on_exception_catch(), lines 2471-2604: line 2479 hands
\* uncaughtExceptionMap, which no failed Agent_OnLoad() has created, to
\* jthread_map_empty()
callback_on_exception_catch_after_failed_load(t, survives) ==
    /\ DeliveredAfterFailedLoad
    /\ agent' = AfterUse([agent EXCEPT !.calls = @ + 1],
                         {<<"uncaughtExceptionMap", 2479>>}, survives)
    /\ UNCHANGED <<ring, pushed, fmt, sink, jni, delivery, trace, info>>
    /\ UNCHANGED engineVars

\* callback_on_thread_end(), lines 1517-1558
callback_on_thread_end_after_failed_load(t, survives) ==
    /\ DeliveredAfterFailedLoad
    /\ LET a == [agent EXCEPT !.calls = @ + 1]
       IN agent' =
              \* line 1523
              IF "threadMap" \notin agent.created THEN a
              \* lines 1528, 1538, 1539
              ELSE AfterUse([a EXCEPT !.threadMap = jthread_map_pop(@, t)],
                            {<<"uncaughtExceptionMap", 1528>>}, survives)
    /\ UNCHANGED <<ring, pushed, fmt, sink, jni, delivery, trace, info>>
    /\ UNCHANGED engineVars

LoadNext ==
    \/ \E fail \in {"none", "shared_lock", "threadMap",
                    "uncaughtExceptionMap"} : Agent_OnLoad(fail)
    \/ \E t \in Threads, e \in Exc, catch_method, survives \in BOOLEAN :
           callback_on_exception_after_failed_load(t, e, catch_method,
                                                   survives)
    \/ \E t \in Threads, survives \in BOOLEAN :
           callback_on_exception_catch_after_failed_load(t, survives)
    \/ \E t \in Threads, survives \in BOOLEAN :
           callback_on_thread_end_after_failed_load(t, survives)

LoadSpec == LoadInit /\ [][LoadNext]_vars

(* ---------------------------------------------------------------------- *)
(* report_stacktrace on its own                                            *)
(* ---------------------------------------------------------------------- *)

\* the outputs globalConfig.reportErrosTo selects
ErrorDestinations == {"ED_ABRT", "ED_SYSLOG", "ED_JOURNALD"}

\* a callback calls report_stacktrace() with a record whose stack trace is
\* a string or NULL; res is what problem_data_send_to_abrt() will return
SinkInit ==
    /\ EngineInit
    /\ delivery = NoDelivery
    /\ trace = NoTrace
    /\ info = NoInfo
    /\ ring = NoRing
    /\ pushed = <<>>
    /\ fmt = NoFmt
    /\ agent = NoAgent
    /\ jni = NoJni
    /\ \E reportErrosTo \in SUBSET ErrorDestinations,
          stacktrace, log_file \in BOOLEAN, res \in {0, 1} :
           sink = [NoSink EXCEPT !.pc = "called",
                                 !.reportErrosTo = reportErrosTo,
                                 !.stacktrace = stacktrace,
                                 !.log_file = log_file, !.res = res]

\* the outputs in the order given, those left out that are not selected
Selected(outputs, selected) ==
    SelectSeq(outputs, LAMBDA o : o \in selected)

\* lines 689-726: syslog(), sd_journal_send() and log_print(), which
\* writes when a log file is configured
report_stacktrace_print ==
    /\ sink.pc = "called"
    /\ sink' = [sink EXCEPT
                   !.sent = Selected(<<"syslog", "journald", "log">>,
                       {o \in {"syslog", "journald", "log"} :
                           \/ o = "syslog"
                              /\ "ED_SYSLOG" \in sink.reportErrosTo
                           \/ o = "journald"
                              /\ "ED_JOURNALD" \in sink.reportErrosTo
                           \/ o = "log" /\ sink.log_file}),
                   \* line 727
                   !.pc = IF sink.stacktrace THEN "register_abrt_event"
                          ELSE "returned"]
    /\ UNCHANGED <<ring, pushed, fmt, agent, jni, delivery, trace, info>>
    /\ UNCHANGED engineVars

\* line 673: one call of problem_data_send_to_abrt(), whatever it returns
problem_data_send_to_abrt(res) == <<"abrt">>

\* lines 636-676
register_abrt_event ==
    /\ sink.pc = "register_abrt_event"
    /\ sink' =
           \* line 642
           IF "ED_ABRT" \notin sink.reportErrosTo
           THEN [sink EXCEPT !.pc = "returned"]
           ELSE [sink EXCEPT
                    !.pc = "returned",
                    !.sent = @ \o problem_data_send_to_abrt(sink.res),
                    !.stderr = Append(@, IF sink.res # 0 THEN "failure"
                                         ELSE "success")]
    /\ UNCHANGED <<ring, pushed, fmt, agent, jni, delivery, trace, info>>
    /\ UNCHANGED engineVars

SinkNext ==
    \/ report_stacktrace_print
    \/ register_abrt_event

SinkSpec == SinkInit /\ [][SinkNext]_vars

(* ---------------------------------------------------------------------- *)
(* The JNI calls of a callback                                             *)
(* ---------------------------------------------------------------------- *)

\* a JNI call at a line of a function: raises tells whether the call can
\* leave an exception pending, checked is the line of the call of
\* check_and_clear_exception() that follows it, or 0
Call(line, function, name, raises, checked) ==
    [line |-> line, function |-> function, name |-> name,
     raises |-> raises, checked |-> checked]

\* lines 779-802; line 799 is not checked: "Thread.getId() throws nothing"
get_tid ==
    <<Call(784, "get_tid", "GetObjectClass", FALSE, 0),
      Call(791, "get_tid", "GetMethodID", TRUE, 792),
      Call(799, "get_tid", "CallLongMethod", FALSE, 0)>>

\* line 500
get_exception_type_name ==
    <<Call(500, "get_exception_type_name", "GetObjectClass", FALSE, 0)>>

\* lines 1809-1868
find_class_in_loaded_class ==
    <<Call(1823, "find_class_in_loaded_class", "FindClass", TRUE, 1824),
      Call(1830, "find_class_in_loaded_class", "GetMethodID", TRUE, 1831),
      Call(1840, "find_class_in_loaded_class", "CallObjectMethod", TRUE, 1841),
      Call(1847, "find_class_in_loaded_class", "GetStringUTFChars", FALSE, 0)>>

\* lines 1737-1808 and 1636-1732
get_path_to_class ==
    <<Call(1743, "get_system_class_loader", "FindClass", TRUE, 1744),
      Call(1750, "get_system_class_loader", "GetStaticMethodID", TRUE, 1751),
      Call(1757, "get_system_class_loader", "CallStaticObjectMethod", TRUE,
           1758),
      Call(1657, "get_path_to_class_class_loader", "FindClass", TRUE, 1658),
      Call(1666, "get_path_to_class_class_loader", "GetMethodID", TRUE, 1667),
      Call(1676, "get_path_to_class_class_loader", "NewStringUTF", TRUE, 1678),
      Call(1685, "get_path_to_class_class_loader", "CallObjectMethod", TRUE,
           1686),
      Call(1693, "get_path_to_class_class_loader", "FindClass", TRUE, 1694),
      Call(1700, "get_path_to_class_class_loader", "GetMethodID", TRUE, 1701),
      Call(1708, "get_path_to_class_class_loader", "CallObjectMethod", TRUE,
           1709),
      Call(1716, "get_path_to_class_class_loader", "GetStringUTFChars", FALSE,
           0)>>

\* lines 1870-1960, for one stack frame
print_stack_trace_element ==
    <<Call(1878, "print_stack_trace_element", "GetObjectClass", FALSE, 0),
      Call(1879, "print_stack_trace_element", "GetMethodID", TRUE, 1880),
      Call(1887, "print_stack_trace_element", "CallObjectMethod", TRUE, 1888),
      Call(1895, "print_stack_trace_element", "GetStringUTFChars", FALSE, 0),
      Call(1897, "print_stack_trace_element", "FindClass", TRUE, 1900)>>
    \o find_class_in_loaded_class \o get_path_to_class \o
    <<Call(1928, "print_stack_trace_element", "GetMethodID", TRUE, 1930),
      Call(1936, "print_stack_trace_element", "CallObjectMethod", TRUE, 1937),
      Call(1944, "print_stack_trace_element", "GetStringUTFChars", FALSE, 0)>>

\* lines 1963-2050
print_exception_stack_trace ==
    <<Call(1972, "print_exception_stack_trace", "GetObjectClass", FALSE, 0),
      Call(1973, "print_exception_stack_trace", "GetMethodID", TRUE, 1974),
      Call(1981, "print_exception_stack_trace", "CallObjectMethod", TRUE, 1982),
      Call(1989, "print_exception_stack_trace", "GetStringUTFChars", FALSE, 0),
      Call(2006, "print_exception_stack_trace", "GetMethodID", TRUE, 2009),
      Call(2015, "print_exception_stack_trace", "CallObjectMethod", TRUE, 2016),
      Call(2022, "print_exception_stack_trace", "GetArrayLength", FALSE, 0),
      Call(2026, "print_exception_stack_trace", "GetObjectArrayElement",
           FALSE, 0)>>
    \o print_stack_trace_element

\* lines 2052-2150, for an exception with one cause
generate_thread_stack_trace ==
    print_exception_stack_trace \o
    <<Call(2085, "generate_thread_stack_trace", "GetObjectClass", FALSE, 0),
      Call(2092, "generate_thread_stack_trace", "GetMethodID", TRUE, 2095),
      Call(2101, "generate_thread_stack_trace", "CallObjectMethod", TRUE, 2102),
      Call(2136, "generate_thread_stack_trace", "CallObjectMethod", TRUE,
           2138)>>

\* lines 1345-1450, for one debug method
collect_additional_debug_information ==
    find_class_in_loaded_class \o
    <<Call(1405, "collect_additional_debug_information", "GetStaticMethodID",
           TRUE, 1406),
      Call(1412, "collect_additional_debug_information",
           "CallStaticObjectMethod", TRUE, 1413),
      Call(1421, "collect_additional_debug_information", "GetStringUTFChars",
           FALSE, 0)>>

\* the JNI calls a callback makes on its longest path, in order
JniCalls(callback) ==
    IF callback = "callback_on_exception"
    THEN get_exception_type_name \o get_tid \o generate_thread_stack_trace
             \o collect_additional_debug_information
    ELSE IF callback = "callback_on_exception_catch"
    THEN get_tid \o
         <<Call(2501, "callback_on_exception_catch", "FindClass", TRUE, 2502),
           Call(2508, "callback_on_exception_catch", "GetMethodID", TRUE,
                2509),
           Call(2516, "callback_on_exception_catch", "CallBooleanMethod",
                TRUE, 2517)>>
         \o get_exception_type_name \o get_tid
    ELSE get_tid

JniInit ==
    /\ EngineInit
    /\ delivery = NoDelivery
    /\ trace = NoTrace
    /\ info = NoInfo
    /\ ring = NoRing
    /\ pushed = <<>>
    /\ fmt = NoFmt
    /\ agent = NoAgent
    /\ sink = NoSink
    /\ \E callback \in {"callback_on_exception",
                         "callback_on_exception_catch",
                         "callback_on_thread_end"} :
           jni = [NoJni EXCEPT !.callback = callback, !.site = 1,
                               !.phase = "call"]

\* mutant: the exception is looked at, but not cleared
check_without_clear(pending) == pending

\* lines 739-752: ExceptionOccurred() and ExceptionClear(); the value is the
\* exception left pending
check_and_clear_exception(pending) == FALSE

\* the callback makes the JNI call it is at; the call raises or not
jni_call(raise) ==
    /\ jni.phase = "call"
    /\ jni' = [jni EXCEPT
                  !.phase = "called",
                  !.pending = @ \/ (raise
                                    /\ JniCalls(jni.callback)[jni.site].raises)]
    /\ UNCHANGED <<ring, pushed, fmt, agent, sink, delivery, trace, info>>
    /\ UNCHANGED engineVars

\* what follows the call: check_and_clear_exception() where the code has
\* it, then the next call; after a failure the function leaves for a later
\* call of the callback (next), or the callback returns
jni_called(next) ==
    /\ jni.phase = "called"
    /\ LET calls == JniCalls(jni.callback)
           call == calls[jni.site]
           failed == call.checked # 0 /\ jni.pending
           to == IF failed THEN next ELSE jni.site + 1
       IN /\ next > jni.site
          /\ jni' = [jni EXCEPT
                        !.pending = IF call.checked # 0
                                    THEN check_and_clear_exception(@)
                                    ELSE @,
                        !.cleared = IF failed THEN call.checked ELSE @,
                        !.site = to,
                        !.phase = IF to > Len(calls) THEN "returned"
                                  ELSE "call"]
    /\ UNCHANGED <<ring, pushed, fmt, agent, sink, delivery, trace, info>>
    /\ UNCHANGED engineVars

JniNext ==
    \/ \E raise \in BOOLEAN : jni_call(raise)
    \/ \E next \in 2..(Len(JniCalls(jni.callback)) + 1) : jni_called(next)

JniSpec == JniInit /\ [][JniNext]_vars

(* ---------------------------------------------------------------------- *)
(* Properties                                                              *)
(* ---------------------------------------------------------------------- *)

\* the reports thread t emitted for exception e, in order
ReportsFor(t, e) == SelectSeq(reports[t], LAMBDA r : r.exc = e)

\* the reports thread t emitted for e from callback_on_exception and
\* callback_on_exception_catch
EventReportsFor(t, e) ==
    SelectSeq(reports[t], LAMBDA r : r.exc = e /\ r.by # "end")

\* the pending report of thread t, or NULL
Pending(t) == jthread_map_get(uncaughtExceptionMap, t)

\* the identities the events of thread t involve
Identities(t) == {events[t][i].e : i \in 1..Len(events[t])}

\* thread t runs no callback of an exception or catch event
Quiet(t) == pc[t] \notin {"on_exception", "on_exception_catch"}

\* the type of e is on the configured list of caught types to report
Listed(e) == TypeName(e) \in reportedCaughExceptionTypes.names

\* on-throw(t, e) with no catch method known arrived and no on-catch(t, e)
\* followed it
ThrownUncaught(t, e) ==
    \E i \in 1..Len(events[t]) :
        /\ events[t][i] = OnThrow(e, FALSE)
        /\ \A j \in (i + 1)..Len(events[t]) : events[t][j] # OnCatch(e)

\* the same, and no later on-throw on t
LastThrownUncaught(t, e) ==
    \E i \in 1..Len(events[t]) :
        /\ events[t][i] = OnThrow(e, FALSE)
        /\ \A j \in (i + 1)..Len(events[t]) :
               events[t][j].kind = "catch" /\ events[t][j].e # e

Sighted(t, e) ==
    \E i \in 1..Len(events[t]) :
        \/ events[t][i] = OnThrow(e, TRUE)
        \/ /\ i > 1
           /\ events[t][i] = OnCatch(e)
           /\ events[t][i - 1] = OnThrow(e, FALSE)

C4_AtMostOneReportInWindow ==
    \A t \in Threads, e \in Exc :
        e \notin evicted[t] => Len(ReportsFor(t, e)) <= 1

\* an on-catch of thread t returns in this step: from the critical section,
\* or at the emptiness test
CatchReturns(t) ==
    \/ pc[t] = "on_exception_catch" /\ pc'[t] = "idle"
    \/ /\ pc[t] = "idle"
       /\ pc'[t] = "idle"
       /\ Len(events'[t]) = Len(events[t]) + 1
       /\ events'[t][Len(events'[t])].kind = "catch"

\* the exception object of that on-catch
CaughtObject(t) ==
    IF pc[t] = "on_exception_catch" THEN cur[t].e
    ELSE events'[t][Len(events'[t])].e

\* C5: an on-catch(T, E) of a thread with no pending report, or with a
\* pending report of another exception, changes neither map nor any report
\* or buffer, and emits no report.
C5_MissLeavesRegistries ==
    [][\A t \in Threads :
           (/\ CatchReturns(t)
            /\ \/ Pending(t) = NULL
               \/ RptExc(Pending(t)) # CaughtObject(t))
               => UNCHANGED <<threadMap, uncaughtExceptionMap, rptHeap,
                              bufHeap, reports>>]_vars

C5_Witness ==
    \E t \in Threads, e \in Exc :
        /\ pc[t] = "idle"
        /\ Len(events[t]) = 2
        /\ events[t][1].kind = "throw"
        /\ events[t][2] = OnCatch(e)
        /\ Pending(t) # NULL
        /\ RptExc(Pending(t)) # e
        /\ reports[t] = <<>>

\* C6 as claimed: a thread that operates on a map or on a buffer (inside
\* callback_on_exception, callback_on_exception_catch or
\* callback_on_thread_end) owns the monitor, so no two threads do it at the
\* same time.
C6_RegistryUnderLock ==
    \A t \in Threads :
        pc[t] \in {"on_exception", "on_exception_catch", "thread_end"}
            => shared_lock = t

\* C7: each thread id has at most one buffer in threadMap and at most one
\* report in uncaughtExceptionMap.
C7_AtMostOneEntry ==
    \A k \in Keys :
        /\ Cardinality({p \in threadMap : p[1] = k}) <= 1
        /\ Cardinality({p \in uncaughtExceptionMap : p[1] = k}) <= 1

C7_Witness ==
    \E t \in Threads :
        /\ Cardinality({p \in threadMap : p[1] = t}) = 1
        /\ Cardinality({p \in uncaughtExceptionMap : p[1] = t}) = 1
        /\ Len(events[t]) >= 2

\* C8 as claimed: when callback_on_thread_end has returned for a thread,
\* neither map has an entry for it.
C8_NoEntryAfterThreadEnd ==
    \A t \in Threads :
        pc[t] = "ended"
            => /\ jthread_map_get(threadMap, t) = NULL
               /\ Pending(t) = NULL

\* the owners of a report and of a buffer: the entries of the map that hold
\* it and the callbacks that popped it
RptOwners(r) ==
    Cardinality({p \in uncaughtExceptionMap : p[2] = r})
        + Cardinality({t \in Threads : cur[t].rpt = r})

BufOwners(b) ==
    Cardinality({p \in threadMap : p[2] = b})
        + Cardinality({t \in Threads : cur[t].buf = b})

\* C9 as claimed: every report and every buffer is either live with exactly
\* one owner, or freed (once, entirely) with none.
C9_OneOwnerFreedOnce ==
    \A t \in Threads :
        /\ \A i \in 1..Len(rptHeap[t]) :
               \/ rptHeap[t][i].st = "live" /\ RptOwners(<<t, i>>) = 1
               \/ rptHeap[t][i].st = "freed" /\ RptOwners(<<t, i>>) = 0
        /\ \A i \in 1..Len(bufHeap[t]) :
               \/ bufHeap[t][i].st = "live" /\ BufOwners(<<t, i>>) = 1
               \/ bufHeap[t][i].st = "freed" /\ BufOwners(<<t, i>>) = 0

\* steps of thread t: its callback_on_exception with no catch method leaves
\* the critical section; its callback_on_exception_catch of an object equal
\* to that of report r does; its callback_on_thread_end pops
ThrowNoCatchReturns(t) ==
    pc[t] = "on_exception" /\ ~cur[t].catch_method /\ pc'[t] = "idle"

CatchOfReturns(t, r) ==
    pc[t] = "on_exception_catch" /\ cur[t].e = RptExc(r) /\ pc'[t] = "idle"

ThreadEndPops(t) == pc[t] = "idle" /\ pc'[t] = "thread_end"

\* C10 as claimed: a report appears under a thread's id in
\* uncaughtExceptionMap only in an on-throw of that thread with no catch
\* method, and leaves it only in an on-catch of that thread with an equal
\* object or in the thread's on-thread-end.
C10_AsClaimed ==
    [][\A t \in Threads :
           LET old == jthread_map_get(uncaughtExceptionMap, t)
               new == jthread_map_get(uncaughtExceptionMap', t)
           IN /\ (new # NULL /\ new # old) => ThrowNoCatchReturns(t)
              /\ (old # NULL /\ new # old)
                     => CatchOfReturns(t, old) \/ ThreadEndPops(t)]_vars

\* C10 as amended: ... or when a later on-throw of that thread with no catch
\* method stores its own report in its place.
C10_PendingLifecycle ==
    [][\A t \in Threads :
           LET old == jthread_map_get(uncaughtExceptionMap, t)
               new == jthread_map_get(uncaughtExceptionMap', t)
           IN /\ (new # NULL /\ new # old) => ThrowNoCatchReturns(t)
              /\ (old # NULL /\ new # old)
                     => \/ CatchOfReturns(t, old)
                        \/ ThreadEndPops(t)
                        \/ ThrowNoCatchReturns(t) /\ new # NULL]_vars

C10_Witness ==
    \E t \in Threads :
        /\ Pending(t) = <<t, 2>>
        /\ rptHeap[t][1].st = "live"
        /\ RptOwners(<<t, 1>>) = 0

\* C11 as claimed: when an on-throw of thread T with no catch method stores
\* a report while T has a pending report of another exception, the new
\* report takes its place and the prior one is freed.
C11_ReplacedAndFreed ==
    [][\A t \in Threads :
           LET old == jthread_map_get(uncaughtExceptionMap, t)
               new == jthread_map_get(uncaughtExceptionMap', t)
           IN (/\ ThrowNoCatchReturns(t)
               /\ old # NULL
               /\ new # old
               /\ RptExc(old) # cur[t].e)
                  => /\ new # NULL
                     /\ rptHeap'[new[1]][new[2]].exception_object = cur[t].e
                     /\ rptHeap'[old[1]][old[2]].st # "live"]_vars

\* a callback_on_exception of thread t with a catch method leaves the
\* critical section
ThrowWithCatchReturns(t) ==
    pc[t] = "on_exception" /\ cur[t].catch_method /\ pc'[t] = "idle"

\* exception e is in the buffer threadMap holds for thread t
InBuffer(t, e) ==
    /\ jthread_map_get(threadMap, t) # NULL
    /\ jthrowable_circular_buf_find(BufMem(jthread_map_get(threadMap, t)), e)

\* the same, after the step
InBufferAfter(t, e) ==
    LET b == jthread_map_get(threadMap', t)
    IN /\ b # NULL
       /\ jthrowable_circular_buf_find(bufHeap'[b[1]][b[2]].mem, e)

\* C12 as claimed: an on-throw(T, E) with a catch method and a listed type
\* emits one "Caught" report and pushes E into T's buffer when E is not in
\* it (or T has none), emits nothing when E is in it, and never stores a
\* pending report.
C12_CaughtListedThrow ==
    [][\A t \in Threads :
           (ThrowWithCatchReturns(t) /\ Listed(cur[t].e))
               => /\ uncaughtExceptionMap' = uncaughtExceptionMap
                  /\ rptHeap' = rptHeap
                  /\ IF InBuffer(t, cur[t].e)
                     THEN reports' = reports
                     ELSE /\ reports' = [reports EXCEPT ![t] =
                                 Append(@, Report(cur[t].e, "throw", TRUE))]
                          /\ InBufferAfter(t, cur[t].e)]_vars

\* an on-throw of thread t with a catch method returns in this step: from
\* the critical section, or at the test of line 2313
CaughtThrowReturns(t) ==
    \/ ThrowWithCatchReturns(t)
    \/ /\ pc[t] = "idle"
       /\ pc'[t] = "idle"
       /\ Len(events'[t]) = Len(events[t]) + 1
       /\ events'[t][Len(events'[t])].kind = "throw"

\* the exception object of that on-throw
ThrownObject(t) ==
    IF pc[t] = "on_exception" THEN cur[t].e
    ELSE events'[t][Len(events'[t])].e

\* C13: an on-throw with a catch method and a type that is not on the list
\* (the list may be empty or not configured) emits nothing and changes
\* neither map, no buffer and no report.
C13_UnlistedThrowIgnored ==
    [][\A t \in Threads :
           (CaughtThrowReturns(t) /\ ~Listed(ThrownObject(t)))
               => UNCHANGED <<threadMap, uncaughtExceptionMap, rptHeap,
                              bufHeap, reports>>]_vars

C13_Witness ==
    \E t \in Threads, e \in Exc :
        /\ pc[t] = "idle"
        /\ events[t] = <<OnThrow(e, TRUE)>>
        /\ ~reportedCaughExceptionTypes.isNULL
        /\ reportedCaughExceptionTypes.names # {}
        /\ ~Listed(e)
        /\ reports[t] = <<>>
        /\ jthread_map_get(threadMap, t) = NULL

\* C14 as claimed: when an on-catch(T, E) finds E in T's pending report, the
\* report has left uncaughtExceptionMap and is freed when the callback
\* returns, whether or not it was reported.
C14_MatchedRecordFreed ==
    [][\A t \in Threads :
           LET old == jthread_map_get(uncaughtExceptionMap, t)
           IN (old # NULL /\ CatchOfReturns(t, old))
                  => /\ jthread_map_get(uncaughtExceptionMap', t) = NULL
                     /\ rptHeap'[old[1]][old[2]].st = "freed"]_vars

\* C15 as claimed: an on-thread-end(T) that finds a pending report of E
\* looks E up in T's buffer before the buffer is freed and emits an
\* "Uncaught" report exactly if T has no buffer or E is not in it; with no
\* pending report it emits nothing.
C15_ThreadEndReport ==
    [][\A t \in Threads :
           /\ (pc[t] = "idle" /\ pc'[t] = "ended")
                  => Pending(t) = NULL /\ reports' = reports
           /\ (pc[t] = "idle" /\ pc'[t] = "thread_end")
                  => /\ cur'[t].rpt = Pending(t)
                     /\ cur'[t].buf = jthread_map_get(threadMap, t)
                     /\ bufHeap' = bufHeap
                     /\ reports' = reports
           /\ (pc[t] = "thread_end" /\ pc'[t] = "ended")
                  => reports' =
                         IF /\ cur[t].rpt # NULL
                            /\ \/ cur[t].buf = NULL
                               \/ ~jthrowable_circular_buf_find(
                                       BufMem(cur[t].buf), RptExc(cur[t].rpt))
                         THEN [reports EXCEPT ![t] =
                                  Append(@, Report(RptExc(cur[t].rpt), "end",
                                                   FALSE))]
                         ELSE reports]_vars

\* the last k elements of a sequence (all of them if it has fewer)
LastK(seq, k) ==
    SubSeq(seq, IF Len(seq) > k THEN Len(seq) - k + 1 ELSE 1, Len(seq))

\* C16: after n pushes a buffer of capacity K holds exactly the min(n, K)
\* most recently pushed objects, and find(id) is true exactly for the
\* objects among the K most recent pushes; with capacity 2, push A, B, C
\* gives find(A) false, find(B) true, find(C) true.
C16_RingKeepsLastK ==
    /\ ring.mem = LastK(pushed, ring.capacity)
    /\ \A e \in 1..NumIds :
           jthrowable_circular_buf_find(ring.mem, e)
               <=> \E i \in 1..Len(pushed) :
                       i > Len(pushed) - ring.capacity /\ pushed[i] = e
    /\ (ring.capacity = 2 /\ pushed = <<1, 2, 3>>)
           => /\ ~jthrowable_circular_buf_find(ring.mem, 1)
              /\ jthrowable_circular_buf_find(ring.mem, 2)
              /\ jthrowable_circular_buf_find(ring.mem, 3)

C16_Witness ==
    /\ ring.capacity = 2
    /\ pushed = <<1, 2, 3>>
    /\ ring.mem = <<2, 3>>

\* C17: the string format_exception_reason_message() returns is at most 255
\* bytes long, whatever the names.
C17_ReasonWithinBudget ==
    (fmt.pc = "returned" /\ fmt.message # NoMessage)
        => fmt.message.len <= MAX_REASON_MESSAGE_STRING_LENGTH

C17_Witness ==
    /\ fmt.pc = "returned"
    /\ fmt.message # NoMessage
    /\ fmt.message_len > MAX_REASON_MESSAGE_STRING_LENGTH
    /\ fmt.message.len = MAX_REASON_MESSAGE_STRING_LENGTH - 1
    /\ fmt.applied # <<>>

\* the place of a shortening in the order the claim gives
Rank(drop) ==
    IF drop = "class_namespace" THEN 1
    ELSE IF drop = "exception_namespace" THEN 2
    ELSE 3

\* C18: an overlong message is shortened in this order, rendering again
\* after each step and returning as soon as the text fits: the class name is
\* cut to the part after its last '.', then the exception type name is cut
\* the same way, then the class name is dropped; no step is taken while an
\* earlier one applies.
C18_ShorteningOrder ==
    [][(fmt.pc = "loop" /\ fmt'.message_len > 0) =>
           LET over == fmt'.message_len >= MAX_REASON_MESSAGE_STRING_LENGTH
               grew == Len(fmt'.applied) = Len(fmt.applied) + 1
               drop == fmt'.applied[Len(fmt'.applied)]
           IN /\ ~over => (fmt'.pc = "returned" /\ fmt'.applied = fmt.applied)
              /\ fmt'.pc = "returned"
                     => \/ ~over
                        \/ /\ ~strrchr(fmt.class_name)
                           /\ ~strrchr(fmt.exception_name)
                           /\ strlen(fmt.class_name) = 0
              /\ fmt'.pc = "loop" => grew
              /\ grew =>
                     /\ over
                     /\ \A i \in 1..Len(fmt.applied) :
                            Rank(fmt.applied[i]) < Rank(drop)
                     /\ drop = "class_namespace" =>
                            /\ strrchr(fmt.class_name)
                            /\ fmt'.class_name = after_last_dot(fmt.class_name)
                            /\ fmt'.exception_name = fmt.exception_name
                     /\ drop = "exception_namespace" =>
                            /\ ~strrchr(fmt.class_name)
                            /\ strrchr(fmt.exception_name)
                            /\ fmt'.exception_name =
                                   after_last_dot(fmt.exception_name)
                            /\ fmt'.class_name = fmt.class_name
                     /\ drop = "class_name" =>
                            /\ ~strrchr(fmt.class_name)
                            /\ ~strrchr(fmt.exception_name)
                            /\ strlen(fmt.class_name) > 0
                            /\ fmt'.class_name = EmptyName
                            /\ fmt'.exception_name = fmt.exception_name]_vars

C18_Witness ==
    /\ fmt.pc = "returned"
    /\ fmt.message # NoMessage
    /\ fmt.applied = <<"class_namespace", "exception_namespace", "class_name">>
    /\ fmt.message_len < MAX_REASON_MESSAGE_STRING_LENGTH

\* C19 as claimed: format_exception_reason_message() returns a string for
\* every input and under every internal failure.
C19_AlwaysReturnsString ==
    fmt.pc = "returned" => fmt.message # NoMessage

\* C19 as amended: it returns NULL exactly when calloc() or snprintf()
\* fails; otherwise it returns the text rendered from the names as last
\* shortened, cut to the size of the message when nothing more can be
\* dropped.
C19_StringUnlessAllocFails ==
    fmt.pc = "returned" =>
        /\ fmt.message = NoMessage <=> fmt.fail # "none"
        /\ fmt.message # NoMessage =>
               /\ fmt.message.exception_name = fmt.exception_name
               /\ fmt.message.class_name = fmt.class_name
               /\ fmt.message.caught = fmt.caught
               /\ fmt.message.len =
                      IF fmt.message_len < MAX_REASON_MESSAGE_STRING_LENGTH
                      THEN fmt.message_len
                      ELSE MAX_REASON_MESSAGE_STRING_LENGTH - 1
               /\ fmt.message_len >= MAX_REASON_MESSAGE_STRING_LENGTH
                      => /\ ~strrchr(fmt.class_name)
                         /\ ~strrchr(fmt.exception_name)
                         /\ strlen(fmt.class_name) = 0

C19_Witness ==
    /\ fmt.pc = "returned"
    /\ fmt.fail = "none"
    /\ fmt.message # NoMessage
    /\ fmt.message_len >= MAX_REASON_MESSAGE_STRING_LENGTH
    /\ fmt.message.len = MAX_REASON_MESSAGE_STRING_LENGTH - 1
    /\ fmt.applied = <<"class_name">>

\* a callback_on_exception of thread t leaves the critical section
ThrowReturns(t) == pc[t] = "on_exception" /\ pc'[t] = "idle"

\* C20 as claimed: when a lookup of the method name, the declaring class or
\* the class signature fails in an on-throw or an on-catch, the callback
\* still stores the pending report, or emits the report, that was due.
C20_LookupFailureStillReports ==
    [][\A t \in Threads :
           lookupFailed' =>
               /\ (ThrowReturns(t) /\ ~cur[t].catch_method)
                      => /\ Len(rptHeap'[t]) = Len(rptHeap[t]) + 1
                         /\ \E p \in uncaughtExceptionMap' :
                                /\ p[2] = <<t, Len(rptHeap'[t])>>
                                /\ rptHeap'[t][p[2][2]].exception_object
                                       = cur[t].e
               /\ (ThrowReturns(t) /\ cur[t].catch_method)
                      => reports' = [reports EXCEPT ![t] =
                             Append(@, Report(cur[t].e, "throw", TRUE))]
               /\ (pc[t] = "on_exception_catch" /\ pc'[t] = "idle")
                      => reports' = [reports EXCEPT ![t] =
                             Append(@, Report(cur[t].e, "catch", TRUE))]]_vars

\* C21 as claimed: when the allocation of the pending report or of the
\* buffer fails, the report is not lost: the callback emits it (an on-throw
\* with a catch method, an on-catch), or emits or keeps it for later (an
\* on-throw with no catch method).
C21_AllocFailureStillReports ==
    [][\A t \in Threads :
           allocFailed' =>
               /\ (ThrowReturns(t) /\ cur[t].catch_method)
                      => reports' = [reports EXCEPT ![t] =
                             Append(@, Report(cur[t].e, "throw", TRUE))]
               /\ (pc[t] = "on_exception_catch" /\ pc'[t] = "idle")
                      => reports' = [reports EXCEPT ![t] =
                             Append(@, Report(cur[t].e, "catch", TRUE))]
               /\ (ThrowReturns(t) /\ ~cur[t].catch_method)
                      => \/ /\ Len(reports'[t]) = Len(reports[t]) + 1
                            /\ reports'[t][Len(reports'[t])].exc = cur[t].e
                         \/ \E p \in uncaughtExceptionMap' :
                                /\ p \notin uncaughtExceptionMap
                                /\ rptHeap'[p[2][1]][p[2][2]].exception_object
                                       = cur[t].e]_vars

\* C22: when Agent_OnLoad() could not create the global lock or one of the
\* two registries, every callback delivered afterwards is a no-op: it emits
\* no report, hands no missing registry to a jthread_map function, and the
\* host process keeps running.
C22_NoOpAfterFailedLoad ==
    agent.result # "JNI_OK" =>
        /\ agent.emitted = <<>>
        /\ agent.touched = {}
        /\ agent.host = "running"

CatchDelivered(t) ==
    /\ Len(events'[t]) = Len(events[t]) + 1
    /\ events'[t][Len(events'[t])].kind = "catch"

\* C25: when uncaughtExceptionMap holds no report of any thread, a catch
\* event returns at once: the thread does not enter the monitor, emits no
\* report, and leaves the maps, the reports, the buffers and every thread's
\* callback state as they were.
C25_NothingPendingReturnsAtOnce ==
    [][\A t \in Threads :
           (CatchDelivered(t) /\ uncaughtExceptionMap = {})
               => /\ pc'[t] = "idle"
                  /\ UNCHANGED <<threadMap, uncaughtExceptionMap, shared_lock,
                                 rptHeap, bufHeap, pc, cur, reports, evicted,
                                 degraded, failures>>]_vars

\* the first event of the run was a catch event, and its callback is over
C25_Witness ==
    \E t \in Threads, e \in Exc :
        /\ events[t] = <<OnCatch(e)>>
        /\ pc[t] = "idle"
        /\ \A u \in Threads \ {t} : events[u] = <<>> /\ pc[u] = "idle"
        /\ uncaughtExceptionMap = {}

\* C27: the callback that emits a report fixes its phrasing: a report of
\* callback_on_exception or callback_on_exception_catch says "Caught", a
\* report of callback_on_thread_end says "Uncaught"; and a report that says
\* "Uncaught" is of an exception that was thrown with no catch method known
\* and for which no catch event followed.
C27_PhrasingByHandler ==
    /\ [](\A t \in Threads : \A i \in 1..Len(reports[t]) :
              reports[t][i].phrase =
                  IF reports[t][i].by \in {"throw", "catch"}
                  THEN "Caught" ELSE "Uncaught")
    /\ [][\A t \in Threads :
              Len(reports'[t]) = Len(reports[t]) + 1
                  => LET r == reports'[t][Len(reports'[t])]
                     IN r.phrase = "Uncaught" => ThrownUncaught(t, r.exc)]_vars

\* C28: a callback_on_exception with no catch method emits no report, and a
\* report emitted by callback_on_exception_catch or callback_on_thread_end
\* of a thread is of an exception that an earlier Exception event of the
\* same thread delivered with no catch method.
C28_NoCatchThrowEmitsNothing ==
    [][\A t \in Threads :
           /\ ThrowNoCatchReturns(t) => reports' = reports
           /\ Len(reports'[t]) = Len(reports[t]) + 1
                  => LET r == reports'[t][Len(reports'[t])]
                     IN \/ r.by = "throw" /\ cur[t].catch_method
                        \/ /\ r.by \in {"catch", "end"}
                           /\ \E i \in 1..Len(events[t]) :
                                  events[t][i] = OnThrow(r.exc, FALSE)]_vars

\* an Exception event with no catch method has returned: the report is
\* postponed and none is emitted
C28_Witness ==
    \E t \in Threads, e \in Exc :
        /\ events[t] = <<OnThrow(e, FALSE)>>
        /\ pc[t] = "idle"
        /\ Pending(t) # NULL
        /\ RptExc(Pending(t)) = e
        /\ reports[t] = <<>>

\* the length of "<Caught|Uncaught> exception <Type> in method
\* <Class>.<method>()" for the names the function was called with, the '.'
\* left out after an empty class name
FullRendering ==
    (IF fmt.caught THEN 6 ELSE 8) + 11 + strlen(fmt.exception_fqdn) + 11
        + strlen(fmt.class_fqdn)
        + (IF fmt.class_fqdn = EmptyName THEN 0 ELSE 1)
        + fmt.method + 2

\* C29: the message format_exception_reason_message() returns is shortened
\* (a name is cut or dropped, or the text is cut) if and only if the full
\* rendering is 255 bytes or longer; when it is shorter the message is that
\* rendering, with the names as given and with no '.' after an empty class
\* name.
C29_ShrinksIffOverBudget ==
    (fmt.pc = "returned" /\ fmt.message # NoMessage) =>
        LET shrunk == \/ fmt.applied # <<>>
                      \/ fmt.message.exception_name # fmt.exception_fqdn
                      \/ fmt.message.class_name # fmt.class_fqdn
                      \/ fmt.message.len < FullRendering
        IN /\ shrunk <=> FullRendering >= MAX_REASON_MESSAGE_STRING_LENGTH
           /\ FullRendering < MAX_REASON_MESSAGE_STRING_LENGTH
                  => fmt.message = [len |-> FullRendering,
                                    caught |-> fmt.caught,
                                    exception_name |-> fmt.exception_fqdn,
                                    class_name |-> fmt.class_fqdn,
                                    method |-> fmt.method]

\* a short message of a method with an empty class name is returned as
\* rendered
C29_Witness ==
    /\ fmt.pc = "returned"
    /\ fmt.message # NoMessage
    /\ fmt.class_fqdn = EmptyName
    /\ fmt.applied = <<>>
    /\ fmt.message.len = FullRendering
    /\ FullRendering < MAX_REASON_MESSAGE_STRING_LENGTH

\* C30: every call of format_exception_reason_message() returns, after at
\* most three shortenings and four calls of snprintf(), and no shortening is
\* applied twice.
C30_LoopTerminates ==
    /\ [](/\ Len(fmt.applied) <= 3
          /\ \A i, j \in 1..Len(fmt.applied) :
                 i # j => fmt.applied[i] # fmt.applied[j]
          /\ fmt.renderings <= 4
          /\ fmt.renderings <= Len(fmt.applied) + 1)
    /\ <>(fmt.pc = "returned")

\* a call that needed all three shortenings has returned
C30_Witness ==
    /\ fmt.pc = "returned"
    /\ Len(fmt.applied) = 3
    /\ fmt.renderings = 4

\* the number of times the record was sent to an output
Sent(output) ==
    Cardinality({i \in 1..Len(sink.sent) : sink.sent[i] = output})

\* C24: a record handed to report_stacktrace() is sent exactly once to each
\* selected output, also to ABRT; the result of the delivery to ABRT is
\* only printed, the delivery is not repeated, and no map has changed when
\* the function returns.
C24_OneDeliveryPerRecord ==
    sink.pc = "returned" =>
        /\ Sent("abrt") = IF "ED_ABRT" \in sink.reportErrosTo THEN 1 ELSE 0
        /\ Sent("syslog") = IF "ED_SYSLOG" \in sink.reportErrosTo THEN 1 ELSE 0
        /\ Sent("journald") =
               IF "ED_JOURNALD" \in sink.reportErrosTo THEN 1 ELSE 0
        /\ Sent("log") = IF sink.log_file THEN 1 ELSE 0
        /\ Len(sink.stderr) = Sent("abrt")
        /\ threadMap = {}
        /\ uncaughtExceptionMap = {}

\* C26: when a callback returns, no exception raised by one of its JNI calls
\* is pending: each call that can raise is followed by
\* check_and_clear_exception().
C26_NoPendingOnReturn ==
    jni.phase = "returned" => ~jni.pending

\* a JNI call of the callback raised, the exception was cleared, and the
\* callback has returned
C26_Witness ==
    /\ jni.phase = "returned"
    /\ jni.cleared # 0
    /\ ~jni.pending

\* C34: a callback_on_exception of thread T with no catch method, for an
\* exception that is in T's buffer, stores no report: uncaughtExceptionMap
\* and the heap of reports stay as they were, and no report is emitted.
C34_ReportedIsNotPostponed ==
    [][\A t \in Threads :
           (ThrowNoCatchReturns(t) /\ InBuffer(t, cur[t].e))
               => UNCHANGED <<uncaughtExceptionMap, rptHeap, reports>>]_vars


\* C35: a callback_on_exception_catch of thread T whose object equals that
\* of T's pending report, the type of which is not on the list of caught
\* types to report (or no list is configured), pops the report and frees
\* it, emits no report and leaves threadMap and every buffer as they were.
C35_UnlistedCatchDropsRecord ==
    [][\A t \in Threads :
           LET old == jthread_map_get(uncaughtExceptionMap, t)
           IN (old # NULL /\ CatchOfReturns(t, old) /\ ~Listed(RptExc(old)))
                  => /\ jthread_map_get(uncaughtExceptionMap', t) = NULL
                     /\ rptHeap'[old[1]][old[2]].st = "freed"
                     /\ reports' = reports
                     /\ UNCHANGED <<threadMap, bufHeap>>]_vars

\* the steps of callback_on_exception and callback_on_exception_catch that
\* thread t takes inside the critical section
InCriticalSection(t) ==
    \/ \E tidOk, lookupOk, allocOk \in BOOLEAN :
           callback_on_exception(t, tidOk, lookupOk, allocOk)
    \/ \E tidOk, tidOk2, equalsOk, lookupOk, allocOk \in BOOLEAN :
           callback_on_exception_catch(t, tidOk, tidOk2, equalsOk,
                                       lookupOk, allocOk)

\* the callbacks under a JVM that lets every thread that holds the monitor
\* run on to the end of its callback
LockSpec ==
    Init /\ [][Next]_vars /\ \A t \in Threads : WF_vars(InCriticalSection(t))

\* C36: a callback_on_exception or callback_on_exception_catch that took
\* the monitor has given it up when it returns, on every path (a failed
\* get_tid(), a failed lookup, a failed allocation, a miss or a normal
\* end), the monitor is held only by a thread inside such a callback, and a
\* held monitor becomes free again.
C36_LockReleased ==
    /\ [](\A t \in Threads : shared_lock = t => ~Quiet(t))
    /\ [][\A t \in Threads :
              (~Quiet(t) /\ pc'[t] = "idle") => shared_lock' = NoThread]_vars
    /\ \A t \in Threads : (shared_lock = t) ~> (shared_lock = NoThread)

\* a callback left the critical section after a call failed in it
C36_Witness ==
    /\ shared_lock = NoThread
    /\ \E t \in Threads : events[t] # <<>> /\ degraded[t] /\ pc[t] = "idle"

\* C37: a step of a callback of thread T leaves every entry of threadMap and
\* of uncaughtExceptionMap that is not keyed by T's id as it was; so a
\* callback that cannot get T's id changes neither map and stores nothing
\* under another key.
C37_KeyedByDeliveringThread ==
    [][\A t \in Threads :
           pc'[t] # pc[t]
               => \A k \in Keys \ {t} :
                      /\ jthread_map_get(threadMap', k)
                             = jthread_map_get(threadMap, k)
                      /\ jthread_map_get(uncaughtExceptionMap', k)
                             = jthread_map_get(uncaughtExceptionMap, k)]_vars

\* What the three callbacks do for one thread that runs alone and in whose
\* callbacks no call fails: st holds the thread's buffer (has_buf, mem), the
\* exception of its pending report (0: none) and the reports emitted so far.
SoloInit == [has_buf |-> FALSE, mem |-> <<>>, pending |-> 0, out |-> <<>>]

SoloReport(st, e, by, caught) ==
    [st EXCEPT !.out = Append(@, Report(e, by, caught)),
               !.has_buf = TRUE,
               !.mem = jthrowable_circular_buf_push(@, e)]

SoloException(st, ev) ==
    LET found == st.has_buf /\ jthrowable_circular_buf_find(st.mem, ev.e)
    IN IF ev.catch_method
       THEN IF /\ exception_is_intended_to_be_reported(
                      reportedCaughExceptionTypes, ev.e)
               /\ ~found
            THEN SoloReport(st, ev.e, "throw", TRUE)
            ELSE st
       ELSE IF found THEN st ELSE [st EXCEPT !.pending = ev.e]

SoloExceptionCatch(st, ev) ==
    IF st.pending = 0 \/ st.pending # ev.e
    THEN st
    ELSE LET popped == [st EXCEPT !.pending = 0]
         IN IF /\ exception_is_intended_to_be_reported(
                       reportedCaughExceptionTypes, ev.e)
               /\ ~(st.has_buf /\ jthrowable_circular_buf_find(st.mem, ev.e))
            THEN SoloReport(popped, ev.e, "catch", TRUE)
            ELSE popped

SoloThreadEnd(st) ==
    IF /\ st.pending # 0
       /\ ~(st.has_buf /\ jthrowable_circular_buf_find(st.mem, st.pending))
    THEN Append(st.out, Report(st.pending, "end", FALSE))
    ELSE st.out

RECURSIVE SoloRun(_, _)
SoloRun(st, evs) ==
    IF evs = <<>>
    THEN st
    ELSE SoloRun(IF Head(evs).kind = "throw"
                 THEN SoloException(st, Head(evs))
                 ELSE SoloExceptionCatch(st, Head(evs)),
                 Tail(evs))

\* the reports of a thread that delivered the events evs alone, and then
\* ended or not
SoloReports(evs, ended) ==
    IF ended THEN SoloThreadEnd(SoloRun(SoloInit, evs))
    ELSE SoloRun(SoloInit, evs).out

\* C38: the reports emitted for a thread are a function of the events the
\* thread itself delivered (and of whether it ended): whenever the thread
\* is outside its callbacks they are the reports the same events give when
\* the thread runs alone, whatever the other threads delivered and however
\* their callbacks interleaved.
C38_ReportsOfOwnEventsOnly ==
    \A t \in Threads :
        pc[t] \in {"idle", "ended"}
            => reports[t] = SoloReports(events[t], pc[t] = "ended")

\* register_all_callback_functions() and set_event_notification_modes()
\* have returned (lines 3029-3039): the JVM may deliver the events
EventsEnabled == agent.pc \in {"onload", "returned"}

\* the monitor and the two maps exist
AllCreated == {Creations[i] : i \in 1..Len(Creations)} \subseteq agent.created

\* C39: once Agent_OnLoad() has enabled the delivery of the events the
\* monitor and the two maps exist, so that no callback runs without them,
\* and an Agent_OnLoad() that returned JNI_OK has created all three.
C39_CreatedBeforeEnabled ==
    /\ EventsEnabled => AllCreated
    /\ agent.calls > 0 => AllCreated
    /\ (agent.pc = "returned" /\ agent.result = "JNI_OK") => AllCreated

(* ---------------------------------------------------------------------- *)
(* info_pair_vector_to_string(), lines 249-289                             *)
(* ---------------------------------------------------------------------- *)

\* most pairs in a list, and the lengths of their labels and values
MaxPairs == 2

LabelLens == {0, 5}

DataLens == {0, 7, 20}

InfoPairs == [label : LabelLens, data : DataLens]

RECURSIVE ListsUpTo(_)
ListsUpTo(n) ==
    IF n = 0
    THEN {<<>>}
    ELSE LET shorter == ListsUpTo(n - 1)
         IN shorter \cup {Append(l, p) : l \in shorter, p \in InfoPairs}

\* line 259: strlen(label) + strlen(data) + strlen(" = \n")
pair_bytes(pair) == pair.label + pair.data + 4

\* lines 257-260: the sum over the pairs
RECURSIVE required_bytes(_)
required_bytes(pairs) ==
    IF pairs = <<>> THEN 0
    ELSE pair_bytes(Head(pairs)) + required_bytes(Tail(pairs))

\* snprintf(pointer, size, "%s = %s\n", label, data): the bytes it stores,
\* the terminating NUL included
snprintf_bytes(size, pair) ==
    IF size = 0 THEN 0
    ELSE IF pair_bytes(pair) + 1 <= size THEN pair_bytes(pair) + 1
    ELSE size

\* the list is handed to the function
InfoInit ==
    /\ EngineInit
    /\ ring = NoRing
    /\ pushed = <<>>
    /\ fmt = NoFmt
    /\ agent = NoAgent
    /\ sink = NoSink
    /\ jni = NoJni
    /\ delivery = NoDelivery
    /\ trace = NoTrace
    /\ \E pairs \in ListsUpTo(MaxPairs) :
           info = [pc |-> "called", pairs |-> pairs, required_bytes |-> 0,
                   allocated |-> 0, to_write |-> 0, pointer |-> 0, iter |-> 1,
                   high |-> 0, contents |-> "NULL"]

\* lines 257-274: the size, the return of NULL for no byte, and malloc()
info_pair_vector_to_string_alloc(mallocOk) ==
    /\ info.pc = "called"
    /\ LET required == required_bytes(info.pairs)
       IN info' =
              IF required = 0 \/ ~mallocOk
              THEN [info EXCEPT !.pc = "returned", !.required_bytes = required]
              ELSE [info EXCEPT !.pc = "loop",
                                !.required_bytes = required,
                                !.allocated = required,
                                \* line 276: never reduced afterwards
                                !.to_write = required,
                                !.contents = "contents"]
    /\ UNCHANGED <<ring, pushed, fmt, agent, sink, jni, delivery, trace>>
    /\ UNCHANGED engineVars

\* lines 278-288: one pair is written at pointer with the size to_write;
\* snprintf() returns the length of the whole rendering, and a negative
\* value (snprintfOk false) ends the loop
info_pair_vector_to_string_loop(snprintfOk) ==
    /\ info.pc = "loop"
    /\ info' =
           IF info.iter > Len(info.pairs) \/ ~snprintfOk
           THEN [info EXCEPT !.pc = "returned"]
           ELSE LET pair == info.pairs[info.iter]
                    end == info.pointer + snprintf_bytes(info.to_write, pair)
                IN [info EXCEPT
                       !.high = IF end > @ THEN end ELSE @,
                       !.pointer = @ + pair_bytes(pair),
                       !.iter = @ + 1]
    /\ UNCHANGED <<ring, pushed, fmt, agent, sink, jni, delivery, trace>>
    /\ UNCHANGED engineVars

InfoNext ==
    \/ \E mallocOk \in BOOLEAN : info_pair_vector_to_string_alloc(mallocOk)
    \/ \E snprintfOk \in BOOLEAN : info_pair_vector_to_string_loop(snprintfOk)

InfoSpec == InfoInit /\ [][InfoNext]_vars

\* C40: info_pair_vector_to_string() writes no byte past the allocation:
\* for every list of pairs, the bytes written into contents, the
\* terminating NUL included, end within the required_bytes it allocated
\* (the sum of label length + value length + 4).
C40_WritesWithinAllocation ==
    info.pc \in {"loop", "returned"} => info.high <= info.allocated

(* ---------------------------------------------------------------------- *)
(* The arguments of report_stacktrace() in the three callbacks             *)
(* ---------------------------------------------------------------------- *)

\* a NULL string, processProperties.main_class, the executable found for
\* the exception of the given callback_on_exception call, and the message
\* format_exception_reason_message() returned in that call or in the
\* callback_on_exception_catch of it
NullString == <<>>

main_class == <<"main_class">>

Executable(fault) == <<"executable", fault>>

Message(caught, fault) == <<Prefix(caught), fault>>

\* no report is stored for the thread
NoPending == [fault |-> 0]

\* mutant: the executable of the report is not looked at
main_class_always(executable) == main_class

\* lines 1545, 2414, 2571: NULL != executable ? executable : main_class
executable_or_main_class(executable) ==
    IF executable # NullString THEN executable ELSE main_class

\* mutant: a NULL message is handed on
message_unchecked(message, fallback) == message

\* lines 1546, 2380-2382, 2572: NULL != message ? message : fallback
message_or(message, fallback) ==
    IF message # NullString THEN message ELSE fallback

\* one call of report_stacktrace(); fault, captured and formatted are not
\* arguments: they say for which callback_on_exception call the report is,
\* which executable was found in that call, and whether the message of
\* the report was formatted
Delivered(by, fault, executable, reason, captured, formatted) ==
    [by |-> by, fault |-> fault, executable |-> executable,
     reason |-> reason, captured |-> captured, formatted |-> formatted]

DeliveryInit ==
    /\ EngineInit
    /\ ring = NoRing
    /\ pushed = <<>>
    /\ fmt = NoFmt
    /\ agent = NoAgent
    /\ sink = NoSink
    /\ jni = NoJni
    /\ trace = NoTrace
    /\ info = NoInfo
    /\ delivery = NoDelivery

\* lines 2361-2432 of callback_on_exception, reached for an exception that
\* is to be reported and is not in the thread's buffer.  messageOk:
\* format_exception_reason_message() returns a string; executableOk:
\* ABRT_EXECUTABLE_THREAD is set and generate_thread_stack_trace() found the
\* path of the class of the last frame; mallocOk: malloc() of the report
callback_on_exception_report(t, catch_method, messageOk, executableOk, mallocOk) ==
    /\ delivery.serial < MaxEvents
    /\ LET fault == delivery.serial + 1
           message == IF messageOk THEN Message(catch_method, fault)
                      ELSE NullString
           executable == IF executableOk THEN Executable(fault)
                         ELSE NullString
           report_message ==
               message_or(message, IF catch_method
                                   THEN <<"Caught exception">>
                                   ELSE <<"Uncaught exception">>)
       IN delivery' =
              IF ~catch_method
              THEN IF mallocOk
                   THEN [delivery EXCEPT
                            !.serial = fault,
                            !.pending[t] = [fault |-> fault,
                                            message |-> message,
                                            executable |-> executable]]
                   ELSE [delivery EXCEPT !.serial = fault]
              ELSE [delivery EXCEPT
                       !.serial = fault,
                       !.out = Append(@,
                           Delivered("throw", fault,
                                     executable_or_main_class(executable),
                                     report_message, executable, messageOk))]
    /\ UNCHANGED <<ring, pushed, fmt, agent, sink, jni, trace, info>>
    /\ UNCHANGED engineVars

\* lines 2531-2600 of callback_on_exception_catch, reached for the object
\* of the thread's pending report.  to_report: the type is to be reported,
\* the exception is not in the thread's buffer and the lookups succeed
callback_on_exception_catch_report(t, to_report, messageOk) ==
    /\ delivery.pending[t] # NoPending
    /\ LET rpt == delivery.pending[t]
           message == IF messageOk THEN Message(TRUE, rpt.fault)
                      ELSE NullString
       IN delivery' =
              [delivery EXCEPT
                  !.pending[t] = NoPending,
                  !.out = IF to_report
                          THEN Append(@,
                                   Delivered("catch", rpt.fault,
                                       executable_or_main_class(rpt.executable),
                                       message_or(message,
                                                  <<"Caught exception">>),
                                       rpt.executable, messageOk))
                          ELSE @]
    /\ UNCHANGED <<ring, pushed, fmt, agent, sink, jni, trace, info>>
    /\ UNCHANGED engineVars

\* lines 1538-1551 of callback_on_thread_end, reached with a pending
\* report.  to_report: the thread has no buffer or the exception is not in it
callback_on_thread_end_report(t, to_report) ==
    /\ delivery.pending[t] # NoPending
    /\ LET rpt == delivery.pending[t]
       IN delivery' =
              [delivery EXCEPT
                  !.pending[t] = NoPending,
                  !.out = IF to_report
                          THEN Append(@,
                                   Delivered("end", rpt.fault,
                                       executable_or_main_class(rpt.executable),
                                       message_or(rpt.message,
                                                  <<"Uncaught exception">>),
                                       rpt.executable,
                                       rpt.message # NullString))
                          ELSE @]
    /\ UNCHANGED <<ring, pushed, fmt, agent, sink, jni, trace, info>>
    /\ UNCHANGED engineVars

DeliveryNext ==
    \E t \in Threads :
        \/ \E catch_method, messageOk, executableOk, mallocOk \in BOOLEAN :
               callback_on_exception_report(t, catch_method, messageOk,
                                            executableOk, mallocOk)
        \/ \E to_report, messageOk \in BOOLEAN :
               callback_on_exception_catch_report(t, to_report, messageOk)
        \/ \E to_report \in BOOLEAN : callback_on_thread_end_report(t, to_report)

DeliverySpec == DeliveryInit /\ [][DeliveryNext]_vars

\* the calls of report_stacktrace() made so far
Deliveries == {delivery.out[i] : i \in 1..Len(delivery.out)}

\* C31: every call of report_stacktrace(), in any of the three callbacks,
\* hands over the executable found for the reported exception when one was
\* found, and processProperties.main_class otherwise; it never hands over
\* the executable found for another exception.
C31_ExecutableOfTheFault ==
    \A r \in Deliveries :
        /\ r.captured \in {NullString, Executable(r.fault)}
        /\ r.captured # NullString => r.executable = r.captured
        /\ r.captured = NullString => r.executable = main_class
        /\ \A f \in 1..delivery.serial :
               f # r.fault => r.executable # Executable(f)

\* two threads have a report each, with an executable and without, and the
\* calls made for both are there: from a catch, and from a thread end
C31_Witness ==
    /\ \E r \in Deliveries :
           r.by = "catch" /\ r.executable = Executable(r.fault)
    /\ \E r \in Deliveries : r.by = "end" /\ r.executable = main_class

\* C32: when format_exception_reason_message() returned no string the call
\* of report_stacktrace() is made all the same, with the reason "Caught
\* exception" in callback_on_exception and callback_on_exception_catch and
\* "Uncaught exception" in callback_on_thread_end.
C32_FallbackReason ==
    \A r \in Deliveries :
        ~r.formatted =>
            r.reason = IF r.by \in {"throw", "catch"}
                       THEN <<"Caught exception">>
                       ELSE <<"Uncaught exception">>

\* reports with a fallback reason were made by a throw and at a thread end
C32_Witness ==
    /\ \E r \in Deliveries : r.by = "throw" /\ ~r.formatted
    /\ \E r \in Deliveries : r.by = "end" /\ ~r.formatted

(* ---------------------------------------------------------------------- *)
(* generate_thread_stack_trace(), lines 2052-2147                          *)
(* ---------------------------------------------------------------------- *)

MAX_STACK_TRACE_STRING_LENGTH == 10000

\* strlen(CAUSED_STACK_TRACE_HEADER), "Caused by: "
CAUSED_STACK_TRACE_HEADER == 11

\* most exceptions in a cause chain, most frames of one exception, and the
\* value of wrote beyond which the run is not followed
MaxChain == 2

MaxFrames == 1

MaxWrote == 12100

\* strlen() of the thread name, of the toString() of an exception, and of
\* the line print_stack_trace_element() renders for a frame
ThreadNameLen == 4

StrLens == {1000, 6000, 12000}

FrameLens == {400, 7000}

Throwables == [str : StrLens, frames : 0..MaxFrames, frame_len : FrameLens]

RECURSIVE ChainsUpTo(_)
ChainsUpTo(n) ==
    IF n = 1
    THEN {<<e>> : e \in Throwables}
    ELSE LET shorter == ChainsUpTo(n - 1)
         IN shorter \cup {Append(c, e) : c \in shorter, e \in Throwables}

\* getCause() of the i-th exception of the chain: the next one, and for the
\* last one NULL (0) or, in a cyclic chain, the first
getCause(t, i) ==
    IF i < Len(t.chain) THEN i + 1 ELSE IF t.cyclic THEN 1 ELSE 0

\* the size handed to snprintf() for a write at offset `at` of the buffer:
\* MAX_STACK_TRACE_STRING_LENGTH - at as an unsigned value, which is beyond
\* every length (-1 here) once `at` has passed the limit
size_left(at) ==
    IF at <= MAX_STACK_TRACE_STRING_LENGTH
    THEN MAX_STACK_TRACE_STRING_LENGTH - at
    ELSE -1

\* snprintf() of len characters with that size stores all of them
fits(at, len) == size_left(at) = -1 \/ len < size_left(at)

\* stack_trace_str[wrote - 1] is read outside the calloc()ed
\* MAX_STACK_TRACE_STRING_LENGTH + 1 bytes
probe_outside(at, len) == at + len - 1 > MAX_STACK_TRACE_STRING_LENGTH

\* lines 1995 and 1936: the test stack_trace_str[wrote - 1] != '\n' finds
\* the line complete.  A line that fits ends with its newline; one that was
\* cut has a NUL there when the byte is inside the buffer; outside the
\* buffer the byte is whatever the heap holds (newline: it is a newline)
line_complete(at, len, newline) ==
    \/ fits(at, len)
    \/ probe_outside(at, len) /\ newline

\* a write outside the buffer ends the process, or does not
written(t, at, survives) ==
    IF at > MAX_STACK_TRACE_STRING_LENGTH /\ ~survives
    THEN [t EXCEPT !.pc = "crashed"]
    ELSE t

TraceInit ==
    /\ EngineInit
    /\ ring = NoRing
    /\ pushed = <<>>
    /\ fmt = NoFmt
    /\ agent = NoAgent
    /\ sink = NoSink
    /\ jni = NoJni
    /\ delivery = NoDelivery
    /\ info = NoInfo
    /\ \E chain \in ChainsUpTo(MaxChain), cyclic \in BOOLEAN :
           trace = [pc |-> "called", chain |-> chain, cyclic |-> cyclic,
                    wrote |-> 0, exception |-> 0, entry |-> 0, local |-> 0,
                    frame |-> 0, causes |-> 0, result |-> "NULL"]

\* lines 2059-2068: calloc() and the "Exception in thread" header; then
\* print_exception_stack_trace() is called for the exception itself
generate_thread_stack_trace_start(callocOk) ==
    /\ trace.pc = "called"
    /\ trace' =
           IF ~callocOk
           THEN [trace EXCEPT !.pc = "returned"]
           ELSE [trace EXCEPT !.pc = "exception",
                              !.wrote = 23 + ThreadNameLen,
                              !.entry = 23 + ThreadNameLen,
                              !.exception = 1]
    /\ UNCHANGED <<ring, pushed, fmt, agent, sink, jni, delivery, info>>
    /\ UNCHANGED engineVars

\* print_exception_stack_trace() returned r to generate_thread_stack_trace()
\* (lines 2075-2081 for the exception, lines 2128-2145 for a cause)
print_exception_stack_trace_returns(t, r, jniOk) ==
    IF t.causes = 0
    THEN IF r <= 0
         THEN [t EXCEPT !.pc = "returned", !.result = "NULL"]
         ELSE IF ~jniOk
         THEN [t EXCEPT !.pc = "returned", !.result = "stack_trace_str",
                        !.wrote = @ + r]
         ELSE [t EXCEPT !.pc = "cause", !.result = "stack_trace_str",
                        !.wrote = @ + r,
                        !.exception = getCause(t, t.exception)]
    ELSE IF r <= 0 \/ ~jniOk
         THEN [t EXCEPT !.pc = "returned",
                        !.wrote = IF r > 0 THEN @ + r ELSE @]
         ELSE [t EXCEPT !.pc = "cause", !.wrote = @ + r,
                        !.exception = getCause(t, t.exception)]

\* lines 1971-2005 of print_exception_stack_trace(): toString() of the
\* exception and the test of the line.  jniOk: the JNI calls of the function
\* succeed, and so do those that follow its return
print_exception_stack_trace_header(newline, jniOk, survives) ==
    /\ trace.pc = "exception"
    /\ LET e == trace.chain[trace.exception]
           len == e.str + 1
       IN trace' =
              IF ~jniOk
              THEN print_exception_stack_trace_returns(trace, -1, TRUE)
              ELSE IF ~line_complete(trace.entry, len, newline)
              THEN print_exception_stack_trace_returns(trace, 0, TRUE)
              ELSE written([trace EXCEPT !.pc = "frames", !.local = len,
                                         !.frame = 1],
                           trace.entry + len, survives)
    /\ UNCHANGED <<ring, pushed, fmt, agent, sink, jni, delivery, info>>
    /\ UNCHANGED engineVars

\* lines 2022-2049: one turn of the loop over the frames, with
\* print_stack_trace_element() (lines 1935-1942), and the return of wrote
print_stack_trace_frame(newline, jniOk, survives) ==
    /\ trace.pc = "frames"
    /\ LET e == trace.chain[trace.exception]
           at == trace.entry + trace.local
       IN trace' =
              IF trace.frame > e.frames
              THEN print_exception_stack_trace_returns(trace, trace.local,
                                                       jniOk)
              ELSE IF ~jniOk \/ ~line_complete(at, e.frame_len, newline)
              THEN print_exception_stack_trace_returns(trace, trace.local,
                                                       TRUE)
              ELSE written([trace EXCEPT !.local = @ + e.frame_len,
                                         !.frame = @ + 1],
                           at + e.frame_len, survives)
    /\ UNCHANGED <<ring, pushed, fmt, agent, sink, jni, delivery, info>>
    /\ UNCHANGED engineVars

\* line 2123: (size_t)(MAX_STACK_TRACE_STRING_LENGTH - wrote) is smaller
\* than the header; the difference is negative, and as a size_t huge, once
\* wrote has passed the limit
no_room_for_cause(wrote) ==
    /\ wrote <= MAX_STACK_TRACE_STRING_LENGTH
    /\ MAX_STACK_TRACE_STRING_LENGTH - wrote < CAUSED_STACK_TRACE_HEADER

\* lines 2121-2138: the head of the loop over the causes
generate_thread_stack_trace_cause(survives) ==
    /\ trace.pc = "cause"
    /\ trace.wrote <= MaxWrote
    /\ trace' =
           IF trace.exception = 0 \/ no_room_for_cause(trace.wrote)
           THEN [trace EXCEPT !.pc = "returned"]
           ELSE written([trace EXCEPT
                            !.pc = "exception",
                            !.wrote = @ + CAUSED_STACK_TRACE_HEADER,
                            !.entry = trace.wrote + CAUSED_STACK_TRACE_HEADER,
                            !.local = 0,
                            !.frame = 0,
                            !.causes = IF @ < MaxChain + 1 THEN @ + 1 ELSE @],
                        trace.wrote + CAUSED_STACK_TRACE_HEADER, survives)
    /\ UNCHANGED <<ring, pushed, fmt, agent, sink, jni, delivery, info>>
    /\ UNCHANGED engineVars

TraceNext ==
    \/ \E callocOk \in BOOLEAN : generate_thread_stack_trace_start(callocOk)
    \/ \E newline, jniOk, survives \in BOOLEAN :
           print_exception_stack_trace_header(newline, jniOk, survives)
    \/ \E newline, jniOk, survives \in BOOLEAN :
           print_stack_trace_frame(newline, jniOk, survives)
    \/ \E survives \in BOOLEAN : generate_thread_stack_trace_cause(survives)

TraceSpec == TraceInit /\ [][TraceNext]_vars

\* the JVM lets the callback that generates the stack trace run on
TraceTermination == TraceInit /\ [][TraceNext]_vars /\ WF_vars(TraceNext)

\* C33: generate_thread_stack_trace() returns for every cause chain, a
\* cyclic one included: every turn of the loop over the causes either
\* leaves the loop or adds to wrote, and wrote stays within
\* MAX_STACK_TRACE_STRING_LENGTH.
C33_CauseLoopTerminates ==
    /\ [](trace.pc # "none" => trace.wrote <= MAX_STACK_TRACE_STRING_LENGTH)
    /\ [][(trace.pc = "cause" /\ trace'.pc = "exception")
              => trace'.wrote > trace.wrote]_vars
    /\ <>(trace.pc = "returned")
====
